---- MODULE Spec2Model ----
(***************************************************************************)
(* A model of src/src/parse.py: the SOL25 front end.                       *)
(*   Lexer.tokenize -> Parser.parse_program -> SemanticAnalyzer.analyze    *)
(*   -> XMLVisitor -> print.                                               *)
(* Text is a sequence of one-character strings; a name or a token value is *)
(* such a sequence, so that prefix matching, selector concatenation and    *)
(* colon counting are computed as the code computes them.                  *)
(***************************************************************************)
EXTENDS Integers, Sequences, FiniteSets, TLC

VARIABLES
    stdin,            \* the whole source text, read by main
    pc,               \* position of main: the stage that runs next
    main_locals,      \* the locals main has bound so far, in binding order
    src_code,         \* Lexer.src_code
    idx,              \* tokenize: idx (1-based here)
    comment_flag,     \* tokenize: comment_flag
    first_comment,    \* tokenize: first_comment
    tokens,           \* tokenize: tokens
    ast,              \* main: ast_root
    class_symtable,   \* SemanticAnalyzer.class_symtable
    current_scope,    \* SemanticAnalyzer.current_scope (the scope stack)
    current_class,    \* SemanticAnalyzer.current_class
    agenda,           \* the analyzer's pending visits (its call stack)
    stdout,           \* what print wrote to the success stream
    exit_code,        \* the process's exit status, NoExit while it runs
    exception         \* the uncaught exception that ended the run, if any

vars == <<stdin, pc, main_locals, src_code, idx, comment_flag, first_comment,
          tokens, ast, class_symtable, current_scope, current_class, agenda,
          stdout, exit_code, exception>>

(***************************************************************************)
(* ErrorType                                                               *)
(***************************************************************************)
LEXICAL_ERROR == 21
SYNTAX_ERROR == 22
SEMANTIC_ERROR_MISSING_MAIN == 31
SEMANTIC_ERROR_UNDEFINED_USE == 32
SEMANTIC_ERROR_MISSMATCH == 33
SEMANTIC_ERROR_VAR_COLLISION == 34
SEMANTIC_ERROR_OTHER == 35
\* The status of a Python process ended by an uncaught exception.
UNCAUGHT_EXCEPTION == 1
\* The status of a run that returned from main.
EXIT_SUCCESS == 0
\* exit_code while the process is still running.
NoExit == -1

(***************************************************************************)
(* Characters and text                                                     *)
(***************************************************************************)
LowerChars == {"a","b","c","d","e","f","g","h","i","j","k","l","m",
               "n","o","p","q","r","s","t","u","v","w","x","y","z"}
UpperChars == {"A","B","C","D","E","F","G","H","I","J","K","L","M",
               "N","O","P","Q","R","S","T","U","V","W","X","Y","Z"}
DigitChars == {"0","1","2","3","4","5","6","7","8","9"}
\* [a-z_], [a-zA-Z0-9_], [a-zA-Z0-9], [ \t]
IdentStart == LowerChars \cup {"_"}
IdentRest == LowerChars \cup UpperChars \cup DigitChars \cup {"_"}
ClassRest == LowerChars \cup UpperChars \cup DigitChars
BlankChars == {" ", "\t"}

\* Python None where a str is expected; a record so that it never compares
\* with a text.
None == [is_none |-> TRUE, val |-> <<>>]
Some(v) == [is_none |-> FALSE, val |-> v]

RECURSIVE Concat(_)
\* "".join(parts)
Concat(parts) ==
    IF parts = <<>> THEN <<>> ELSE Head(parts) \o Concat(Tail(parts))

RECURSIVE CountChar(_, _)
\* the number of occurrences of character c in text s
CountChar(s, c) ==
    IF s = <<>> THEN 0
    ELSE (IF Head(s) = c THEN 1 ELSE 0) + CountChar(Tail(s), c)

RECURSIVE RunLen(_, _, _)
\* The length of the longest run of characters of class C in s from i on:
\* what a greedy C* consumes.
RunLen(s, i, C) ==
    IF i <= Len(s) /\ s[i] \in C THEN 1 + RunLen(s, i + 1, C) ELSE 0

\* A literal pattern w at position i: its length, or 0 when it does not match.
MatchLit(s, i, w) ==
    IF i + Len(w) - 1 <= Len(s) /\ SubSeq(s, i, i + Len(w) - 1) = w
    THEN Len(w) ELSE 0

\* [a-z_][a-zA-Z0-9_]*
MatchIdentifier(s, i) ==
    IF i <= Len(s) /\ s[i] \in IdentStart
    THEN 1 + RunLen(s, i + 1, IdentRest) ELSE 0

\* [a-z_][a-zA-Z0-9_]*:   (the run is maximal: ':' is not an identifier
\* character, so no shorter run can be followed by it)
MatchSelector(s, i) ==
    LET n == MatchIdentifier(s, i) IN
    IF n > 0 /\ i + n <= Len(s) /\ s[i + n] = ":" THEN n + 1 ELSE 0

\* [A-Z][a-zA-Z0-9]*
MatchClassIdentifier(s, i) ==
    IF i <= Len(s) /\ s[i] \in UpperChars
    THEN 1 + RunLen(s, i + 1, ClassRest) ELSE 0

RECURSIVE StringBody(_, _)
\* From position j inside a string literal: the position of the closing
\* quote, or 0 when the literal is malformed. Plain characters are anything
\* but quote, backslash and newline; an escape is \' \n or \\.
StringBody(s, j) ==
    IF j > Len(s) THEN 0
    ELSE IF s[j] = "'" THEN j
    ELSE IF s[j] = "\\" THEN
        IF j + 1 <= Len(s) /\ s[j + 1] \in {"'", "n", "\\"}
        THEN StringBody(s, j + 2) ELSE 0
    ELSE IF s[j] = "\n" THEN 0
    ELSE StringBody(s, j + 1)

\* '([^'\\\n]*(\\['n\\][^'\\\n]*)*)'
MatchString(s, i) ==
    IF i <= Len(s) /\ s[i] = "'"
    THEN LET e == StringBody(s, i + 1) IN IF e = 0 THEN 0 ELSE e - i + 1
    ELSE 0

\* [+-]?\d+
MatchInteger(s, i) ==
    IF i <= Len(s) /\ s[i] \in {"+", "-"}
    THEN LET n == RunLen(s, i + 1, DigitChars) IN IF n > 0 THEN n + 1 ELSE 0
    ELSE RunLen(s, i, DigitChars)

RECURSIVE NextQuote(_, _)
\* the position of the first '"' at or after j, or 0
NextQuote(s, j) ==
    IF j > Len(s) THEN 0
    ELSE IF s[j] = "\"" THEN j
    ELSE NextQuote(s, j + 1)

\* "(?s:.*?)(?=|\n|$)"  : the lookahead has an empty alternative and always
\* succeeds, so this is a double quote, the shortest text, a double quote.
MatchComment(s, i) ==
    IF i <= Len(s) /\ s[i] = "\""
    THEN LET e == NextQuote(s, i + 1) IN IF e = 0 THEN 0 ELSE e - i + 1
    ELSE 0

\* .   (any character but a newline)
MatchInvalid(s, i) ==
    IF i <= Len(s) /\ s[i] # "\n" THEN 1 ELSE 0

\* The texts of the keyword and builtin-class patterns.
kw_class == <<"c","l","a","s","s">>
kw_self == <<"s","e","l","f">>
kw_super == <<"s","u","p","e","r">>
kw_nil == <<"n","i","l">>
kw_true == <<"t","r","u","e">>
kw_false == <<"f","a","l","s","e">>
bc_Object == <<"O","b","j","e","c","t">>
bc_Nil == <<"N","i","l">>
bc_True == <<"T","r","u","e">>
bc_False == <<"F","a","l","s","e">>
bc_Integer == <<"I","n","t","e","g","e","r">>
bc_String == <<"S","t","r","i","n","g">>
bc_Block == <<"B","l","o","c","k">>

\* Lexer.token_tuple_arr, in its order: the length each lexical class
\* matches at position i of s (0: no match).
token_tuple_arr(s, i) == <<
    [name |-> "SELECTOR",         len |-> MatchSelector(s, i)],
    [name |-> "CLASS_KW",         len |-> MatchLit(s, i, kw_class)],
    [name |-> "SELF_KW",          len |-> MatchLit(s, i, kw_self)],
    [name |-> "SUPER_KW",         len |-> MatchLit(s, i, kw_super)],
    [name |-> "NIL_KW",           len |-> MatchLit(s, i, kw_nil)],
    [name |-> "TRUE_KW",          len |-> MatchLit(s, i, kw_true)],
    [name |-> "FALSE_KW",         len |-> MatchLit(s, i, kw_false)],
    [name |-> "OBJECT_BC",        len |-> MatchLit(s, i, bc_Object)],
    [name |-> "NIL_BC",           len |-> MatchLit(s, i, bc_Nil)],
    [name |-> "TRUE_BC",          len |-> MatchLit(s, i, bc_True)],
    [name |-> "FALSE_BC",         len |-> MatchLit(s, i, bc_False)],
    [name |-> "INT_BC",           len |-> MatchLit(s, i, bc_Integer)],
    [name |-> "STRING_BC",        len |-> MatchLit(s, i, bc_String)],
    [name |-> "BLOCK_BC",         len |-> MatchLit(s, i, bc_Block)],
    [name |-> "IDENTIFIER",       len |-> MatchIdentifier(s, i)],
    [name |-> "CLASS_IDENTIFIER", len |-> MatchClassIdentifier(s, i)],
    [name |-> "ASSIGN",           len |-> MatchLit(s, i, <<":", "=">>)],
    [name |-> "DOT",              len |-> MatchLit(s, i, <<".">>)],
    [name |-> "COLON",            len |-> MatchLit(s, i, <<":">>)],
    [name |-> "L_BRACE",          len |-> MatchLit(s, i, <<"{">>)],
    [name |-> "R_BRACE",          len |-> MatchLit(s, i, <<"}">>)],
    [name |-> "L_BRACKET",        len |-> MatchLit(s, i, <<"[">>)],
    [name |-> "R_BRACKET",        len |-> MatchLit(s, i, <<"]">>)],
    [name |-> "L_PARENT",         len |-> MatchLit(s, i, <<"(">>)],
    [name |-> "R_PARENT",         len |-> MatchLit(s, i, <<")">>)],
    [name |-> "PIPE",             len |-> MatchLit(s, i, <<"|">>)],
    [name |-> "STRING",           len |-> MatchString(s, i)],
    [name |-> "INTEGER",          len |-> MatchInteger(s, i)],
    [name |-> "WHITESPACE",       len |-> RunLen(s, i, BlankChars)],
    [name |-> "NEWLINE",          len |-> MatchLit(s, i, <<"\n">>)],
    [name |-> "COMMENT",          len |-> MatchComment(s, i)],
    [name |-> "INVALID",          len |-> MatchInvalid(s, i)] >>

\* re.compile('|'.join(...)).match at position i: the alternation takes the
\* first alternative, in list order, that matches. lastgroup names it, end is
\* match.end(). No alternative matching gives lastgroup "NoMatch".
get_token(s, i) ==
    LET arr == token_tuple_arr(s, i)
        hits == {k \in 1..Len(arr) : arr[k].len > 0}
    IN  IF hits = {} THEN [lastgroup |-> "NoMatch", len |-> 0]
        ELSE LET k == CHOOSE h \in hits : \A g \in hits : h <= g
             IN  [lastgroup |-> arr[k].name, len |-> arr[k].len]

RECURSIVE lstrip(_, _)
\* str.lstrip(c)
lstrip(s, c) ==
    IF s # <<>> /\ Head(s) = c THEN lstrip(Tail(s), c) ELSE s

RECURSIVE rstrip(_, _)
\* str.rstrip(c)
rstrip(s, c) ==
    IF s # <<>> /\ s[Len(s)] = c THEN rstrip(SubSeq(s, 1, Len(s) - 1), c) ELSE s

\* A strip that removes the leading characters only.
strip_leading(s, c) == lstrip(s, c)

\* str.strip(c)
strip(s, c) == rstrip(lstrip(s, c), c)

\* Token(token_type, value)
Token(token_type, value) == [type |-> token_type, value |-> value]
\* Token(TokenType.EOF): its value is None
EOF == Token("EOF", <<>>)

(***************************************************************************)
(* print_err and the ways a step of the program goes on or ends            *)
(***************************************************************************)
\* print_err: the message goes to the error stream and the process exits
\* with the error's value.
print_err(error_type) ==
    /\ pc' = "exit"
    /\ exit_code' = error_type
    /\ exception' = exception

\* An exception nothing catches: traceback on the error stream, status 1.
raise(name) ==
    /\ pc' = "exit"
    /\ exit_code' = UNCAUGHT_EXCEPTION
    /\ exception' = name

\* The step went through; the process keeps running where it is.
goes_on == UNCHANGED <<pc, exit_code, exception>>

(***************************************************************************)
(* Lexer.tokenize                                                          *)
(***************************************************************************)
lexer_vars == <<src_code, idx, comment_flag, first_comment, tokens>>
analyzer_vars == <<class_symtable, current_scope, current_class, agenda>>

\* One iteration of tokenize's while loop.
LexStep ==
    /\ pc = "tokenize"
    /\ idx <= Len(src_code)
    /\ LET match == get_token(src_code, idx)
           token_type == match.lastgroup
           token_value == SubSeq(src_code, idx, idx + match.len - 1)
       IN  IF token_type = "NoMatch" THEN
               /\ print_err(LEXICAL_ERROR)
               /\ UNCHANGED <<idx, comment_flag, first_comment, tokens>>
           ELSE IF token_type = "INVALID" THEN
               /\ print_err(LEXICAL_ERROR)
               /\ UNCHANGED <<idx, comment_flag, first_comment, tokens>>
           ELSE IF token_type = "COMMENT" THEN
               IF token_value[Len(token_value)] # "\"" THEN
                   /\ print_err(LEXICAL_ERROR)
                   /\ UNCHANGED <<idx, comment_flag, first_comment, tokens>>
               ELSE IF comment_flag = FALSE THEN
                   /\ first_comment' = Some(strip(token_value, "\""))
                   /\ comment_flag' = TRUE
                   /\ idx' = idx + match.len
                   /\ goes_on
                   /\ UNCHANGED tokens
               ELSE
                   /\ idx' = idx + match.len
                   /\ goes_on
                   /\ UNCHANGED <<comment_flag, first_comment, tokens>>
           ELSE IF token_type \in {"WHITESPACE", "NEWLINE", "COMMENT"} THEN
               /\ idx' = idx + match.len
               /\ goes_on
               /\ UNCHANGED <<comment_flag, first_comment, tokens>>
           ELSE
               /\ tokens' = Append(tokens, Token(token_type, token_value))
               /\ idx' = idx + match.len
               /\ goes_on
               /\ UNCHANGED <<comment_flag, first_comment>>
    /\ UNCHANGED <<stdin, main_locals, src_code, ast, stdout>>
    /\ UNCHANGED analyzer_vars

(***************************************************************************)
(* Parser                                                                  *)
(***************************************************************************)
builtin_classes == {"OBJECT_BC", "NIL_BC", "TRUE_BC", "FALSE_BC", "INT_BC",
                    "STRING_BC", "BLOCK_BC"}
literal_tokens == {"INTEGER", "STRING", "TRUE_KW", "FALSE_KW", "NIL_KW",
                   "CLASS_IDENTIFIER"}
variable_tokens == {"SELF_KW", "SUPER_KW", "IDENTIFIER"}

\* TokenType.<name>.value, for the token types that become a literal's type
TokenTypeValue(name) ==
    CASE name = "INTEGER" -> <<"I","n","t","e","g","e","r">>
      [] name = "STRING" -> <<"S","t","r","i","n","g">>
      [] name = "TRUE_KW" -> <<"T","r","u","e">>
      [] name = "FALSE_KW" -> <<"F","a","l","s","e">>
      [] name = "NIL_KW" -> <<"N","i","l">>
      [] name = "CLASS_IDENTIFIER" -> <<"c","l","a","s","s">>

\* The AST nodes.
NoNode == [kind |-> "NoneType"]
ProgramNode(class_nodes, comment) ==
    [kind |-> "Program", class_nodes |-> class_nodes, first_comment |-> comment]
ClassNode(identifier, parent_class, methods) ==
    [kind |-> "Class", identifier |-> identifier, parent_class |-> parent_class,
     methods |-> methods]
MethodNode(selector, arity, block) ==
    [kind |-> "Method", selector |-> selector, arity |-> arity, block |-> block]
BlockNode(parameters, statements) ==
    [kind |-> "Block", parameters |-> parameters,
     param_count |-> Len(parameters), statements |-> statements]
StatementNode(identifier, expression) ==
    [kind |-> "Statement", identifier |-> identifier, expression |-> expression]
SendNode(receiver, selector, args) ==
    [kind |-> "Send", receiver |-> receiver, selector |-> selector, args |-> args]
VariableNode(name) == [kind |-> "Variable", name |-> name]
LiteralNode(literal_type, value) ==
    [kind |-> "Literal", type |-> literal_type, value |-> value]

\* Parser.__init__: token_idx (1-based here) and current_token
ParserInit(toks) ==
    [token_idx |-> 1, current_token |-> IF toks # <<>> THEN toks[1] ELSE EOF]

\* Parser.advance_token
advance_token(toks, p) ==
    IF p.token_idx < Len(toks)
    THEN [token_idx |-> p.token_idx + 1, current_token |-> toks[p.token_idx + 1]]
    ELSE [token_idx |-> p.token_idx, current_token |-> EOF]

\* What a parsing method gives back: st is "ok" (node returned, parser left
\* in state p), "syntax" (print_err with SYNTAX_ERROR) or "exception".
Ok(node, p) == [st |-> "ok", node |-> node, p |-> p]
Fail(st, p) == [st |-> st, node |-> NoNode, p |-> p]

\* Token.check_token(expected_type)
check_token(token, expected_type) == token.type = expected_type

\* Parser.consume_token: node is the consumed token
consume_token(toks, p, expected_type) ==
    IF ~check_token(p.current_token, expected_type)
    THEN [st |-> "syntax", node |-> p.current_token, p |-> p]
    ELSE [st |-> "ok", node |-> p.current_token, p |-> advance_token(toks, p)]

\* Sequencing of two steps of a parsing method: when the call that gave r
\* ended the run (print_err, or an exception) nothing follows it, else the
\* method goes on with r.
Then(r, rest(_)) == IF r.st # "ok" THEN Fail(r.st, r.p) ELSE rest(r)

RECURSIVE parse_expression_base(_, _)
RECURSIVE parse_expression(_, _, _)
RECURSIVE parse_expression_loop(_, _, _, _, _, _)
RECURSIVE parse_statemenet(_, _)
RECURSIVE parse_block(_, _)
RECURSIVE parse_block_params(_, _, _)
RECURSIVE parse_block_statements(_, _, _)

\* Parser.parse_expression_base
parse_expression_base(toks, p) ==
    LET token == p.current_token IN
    IF token.type \in literal_tokens THEN
        Ok(LiteralNode(TokenTypeValue(token.type), token.value), advance_token(toks, p))
    ELSE IF token.type \in builtin_classes THEN
        Ok(LiteralNode(<<"c","l","a","s","s">>, token.value), advance_token(toks, p))
    ELSE IF token.type \in variable_tokens THEN
        Ok(VariableNode(token.value), advance_token(toks, p))
    ELSE IF check_token(token, "L_PARENT") THEN
        Then(parse_expression(toks, advance_token(toks, p), "R_PARENT"), LAMBDA expression :
        Then(consume_token(toks, expression.p, "R_PARENT"), LAMBDA c :
        Ok(expression.node, c.p)))
    ELSE IF check_token(token, "L_BRACKET") THEN
        parse_block(toks, p)
    ELSE Fail("syntax", p)

\* Parser.parse_expression: the while True loop, from its top
parse_expression_loop(toks, p, end_token, base, selector_parts, args) ==
    IF check_token(p.current_token, "IDENTIFIER") THEN
        Ok(SendNode(base, p.current_token.value, args), advance_token(toks, p))
    ELSE IF check_token(p.current_token, "SELECTOR") THEN
        Then(parse_expression_base(toks, advance_token(toks, p)), LAMBDA arg :
        IF check_token(arg.p.current_token, end_token)
        THEN Ok(SendNode(base, Concat(Append(selector_parts, p.current_token.value)),
                         Append(args, arg.node)), arg.p)
        ELSE parse_expression_loop(toks, arg.p, end_token, base,
                                   Append(selector_parts, p.current_token.value),
                                   Append(args, arg.node)))
    ELSE IF check_token(p.current_token, end_token) THEN
        IF selector_parts = <<>> THEN Ok(base, p)
        ELSE Ok(SendNode(base, Concat(selector_parts), args), p)
    ELSE Fail("syntax", p)

\* parse_expression with a base that stands alone wrapped in a send of no
\* selector and no argument.
parse_expression_wrapping(toks, p, end_token) ==
    Then(parse_expression_base(toks, p), LAMBDA base :
    Then(parse_expression_loop(toks, base.p, end_token, base.node, <<>>, <<>>), LAMBDA r :
    IF r.node = base.node THEN Ok(SendNode(base.node, <<>>, <<>>), r.p) ELSE r))

\* Parser.parse_expression
parse_expression(toks, p, end_token) ==
    Then(parse_expression_base(toks, p), LAMBDA base :
    parse_expression_loop(toks, base.p, end_token, base.node, <<>>, <<>>))

\* Parser.parse_statemenet
parse_statemenet(toks, p) ==
    Then(consume_token(toks, p, "IDENTIFIER"), LAMBDA token_id :
    Then(consume_token(toks, token_id.p, "ASSIGN"), LAMBDA a :
    Then(parse_expression(toks, a.p, "DOT"), LAMBDA expression :
    Then(consume_token(toks, expression.p, "DOT"), LAMBDA d :
    Ok(StatementNode(token_id.node.value, expression.node), d.p)))))

\* Parser.parse_block: the parameter loop; node is the parameter list
parse_block_params(toks, p, parameters) ==
    IF check_token(p.current_token, "PIPE") THEN Ok(parameters, p)
    ELSE
        Then(consume_token(toks, p, "COLON"), LAMBDA c :
        Then(consume_token(toks, c.p, "IDENTIFIER"), LAMBDA id :
        parse_block_params(toks, id.p, Append(parameters, id.node.value))))

\* Parser.parse_block: the statement loop; node is the statement list
parse_block_statements(toks, p, statements) ==
    IF check_token(p.current_token, "R_BRACKET") THEN Ok(statements, p)
    ELSE
        Then(parse_statemenet(toks, p), LAMBDA s :
        parse_block_statements(toks, s.p, Append(statements, s.node)))

\* Parser.parse_block
parse_block(toks, p) ==
    Then(consume_token(toks, p, "L_BRACKET"), LAMBDA l :
    Then(parse_block_params(toks, l.p, <<>>), LAMBDA parameters :
    Then(consume_token(toks, parameters.p, "PIPE"), LAMBDA pipe :
    Then(parse_block_statements(toks, pipe.p, <<>>), LAMBDA statements :
    Then(consume_token(toks, statements.p, "R_BRACKET"), LAMBDA r :
    Ok(BlockNode(parameters.node, statements.node), r.p))))))

\* param_count before either branch of parse_method has assigned it
Unbound == -1

RECURSIVE parse_method_selectors(_, _, _, _)
\* Parser.parse_method: the "multiple selectors" loop; node is the pair
\* of the selector and param_count built so far
parse_method_selectors(toks, p, selector, param_count) ==
    IF check_token(p.current_token, "L_BRACKET")
    THEN Ok([selector |-> selector, param_count |-> param_count], p)
    ELSE
        Then(consume_token(toks, p, "SELECTOR"), LAMBDA c :
        IF param_count = Unbound THEN Fail("exception", c.p)
        ELSE parse_method_selectors(toks, c.p, selector \o c.node.value, param_count + 1))

\* Parser.parse_method: the if/elif that reads the first part of the selector
parse_method_first(toks, p) ==
    IF check_token(p.current_token, "SELECTOR") THEN
        Ok([selector |-> p.current_token.value, param_count |-> 1], advance_token(toks, p))
    ELSE IF check_token(p.current_token, "IDENTIFIER") THEN
        Ok([selector |-> p.current_token.value, param_count |-> 0], advance_token(toks, p))
    ELSE Ok([selector |-> <<>>, param_count |-> Unbound], p)

\* Parser.parse_method
parse_method(toks, p) ==
    Then(parse_method_first(toks, p), LAMBDA first :
    Then(parse_method_selectors(toks, first.p, first.node.selector,
                                first.node.param_count), LAMBDA sel :
    Then(parse_block(toks, sel.p), LAMBDA block :
    IF sel.node.param_count = Unbound THEN Fail("exception", block.p)
    ELSE Ok(MethodNode(sel.node.selector, sel.node.param_count, block.node), block.p))))

RECURSIVE parse_class_methods(_, _, _)
\* Parser.parse_class: the method loop; node is the method list
parse_class_methods(toks, p, methods) ==
    IF check_token(p.current_token, "R_BRACE") THEN Ok(methods, p)
    ELSE
        Then(parse_method(toks, p), LAMBDA m :
        parse_class_methods(toks, m.p, Append(methods, m.node)))

\* Parser.parse_class
parse_class(toks, p) ==
    Then(consume_token(toks, p, "CLASS_IDENTIFIER"), LAMBDA class_id :
    Then(consume_token(toks, class_id.p, "COLON"), LAMBDA c :
    IF c.p.current_token.type \notin builtin_classes \cup {"CLASS_IDENTIFIER"}
    THEN Fail("syntax", c.p)
    ELSE
        Then(consume_token(toks, advance_token(toks, c.p), "L_BRACE"), LAMBDA l :
        Then(parse_class_methods(toks, l.p, <<>>), LAMBDA methods :
        Then(consume_token(toks, methods.p, "R_BRACE"), LAMBDA r :
        Ok(ClassNode(class_id.node.value, c.p.current_token.value, methods.node), r.p))))))

RECURSIVE parse_program_classes(_, _, _)
\* Parser.parse_program: the class loop; node is the class list
parse_program_classes(toks, p, class_nodes) ==
    IF check_token(p.current_token, "EOF") THEN Ok(class_nodes, p)
    ELSE
        Then(consume_token(toks, p, "CLASS_KW"), LAMBDA k :
        Then(parse_class(toks, k.p), LAMBDA c :
        parse_program_classes(toks, c.p, Append(class_nodes, c.node))))

\* Parser(tokens).parse_program(first_comment)
parse_program(toks, comment) ==
    Then(parse_program_classes(toks, ParserInit(toks), <<>>), LAMBDA class_nodes :
    Ok(ProgramNode(class_nodes.node, IF comment = None THEN <<>> ELSE comment.val),
       class_nodes.p))

(***************************************************************************)
(* SemanticAnalyzer                                                        *)
(***************************************************************************)
Range(f) == {f[x] : x \in DOMAIN f}

\* A dict {selector: {"arity": n}} from its items.
MethodTable(entries) ==
    [s \in {e[1] : e \in Range(entries)} |->
        [arity |-> (CHOOSE e \in Range(entries) : e[1] = s)[2]]]

\* d[key] = value
DictSet(d, key, value) ==
    [k \in DOMAIN d \cup {key} |-> IF k = key THEN value ELSE d[k]]

n_Object == <<"O","b","j","e","c","t">>
n_Main == <<"M","a","i","n">>
n_run == <<"r","u","n">>
n_underscore == <<"_">>

\* SemanticAnalyzer.__init__: class_symtable
builtin_symtable ==
    LET obj == Some(n_Object) IN
    [c \in {n_Object, <<"N","i","l">>, <<"I","n","t","e","g","e","r">>, <<"S","t","r","i","n","g">>, <<"B","l","o","c","k">>, <<"T","r","u","e">>, <<"F","a","l","s","e">>} |->
      CASE c = n_Object -> [parent |-> None, methods |-> MethodTable(<<
                <<<<"n","e","w">>, 0>>, <<<<"f","r","o","m",":">>, 1>>, <<<<"i","d","e","n","t","i","c","a","l","T","o",":">>, 1>>,
                <<<<"e","q","u","a","l","T","o",":">>, 1>>, <<<<"a","s","S","t","r","i","n","g">>, 0>>, <<<<"i","s","N","u","m","b","e","r">>, 0>>,
                <<<<"i","s","S","t","r","i","n","g">>, 0>>, <<<<"i","s","B","l","o","c","k">>, 0>>, <<<<"i","s","N","i","l">>, 0>> >>)]
        [] c = <<"N","i","l">> -> [parent |-> obj, methods |-> MethodTable(<<
                <<<<"a","s","S","t","r","i","n","g">>, 0>> >>)]
        [] c = <<"I","n","t","e","g","e","r">> -> [parent |-> obj, methods |-> MethodTable(<<
                <<<<"e","q","u","a","l","T","o",":">>, 1>>, <<<<"p","l","u","s",":">>, 1>>, <<<<"m","i","n","u","s",":">>, 1>>,
                <<<<"m","u","l","t","i","p","l","y","B","y",":">>, 1>>, <<<<"d","i","v","B","y",":">>, 1>>, <<<<"a","s","S","t","r","i","n","g">>, 0>>,
                <<<<"a","s","I","n","t","e","g","e","r">>, 0>>, <<<<"t","i","m","e","s","R","e","p","e","a","t",":">>, 1>> >>)]
        [] c = <<"S","t","r","i","n","g">> -> [parent |-> obj, methods |-> MethodTable(<<
                <<<<"e","q","u","a","l","T","o",":">>, 1>>, <<<<"c","o","n","c","a","t","e","n","a","t","e","W","i","t","h",":">>, 1>>,
                <<<<"s","t","a","r","t","s","W","i","t","h",":","e","n","d","s","B","e","f","o","r","e",":">>, 2>>, <<<<"a","s","S","t","r","i","n","g">>, 0>>,
                <<<<"a","s","I","n","t","e","g","e","r">>, 0>>, <<<<"p","r","i","n","t">>, 0>>, <<<<"r","e","a","d">>, 0>> >>)]
        [] c = <<"B","l","o","c","k">> -> [parent |-> obj, methods |-> MethodTable(<<
                <<<<"v","a","l","u","e">>, 0>>, <<<<"v","a","l","u","e",":">>, 1>>, <<<<"v","a","l","u","e",":","v","a","l","u","e",":">>, 2>>,
                <<<<"w","h","i","l","e","T","r","u","e",":">>, 1>> >>)]
        [] c = <<"T","r","u","e">> -> [parent |-> obj, methods |-> MethodTable(<<
                <<<<"n","o","t">>, 0>>, <<<<"a","n","d",":">>, 1>>, <<<<"o","r",":">>, 1>>,
                <<<<"i","f","T","r","u","e",":","i","f","F","a","l","s","e",":">>, 2>> >>)]
        [] c = <<"F","a","l","s","e">> -> [parent |-> obj, methods |-> MethodTable(<<
                <<<<"n","o","t">>, 0>>, <<<<"a","n","d",":">>, 1>>, <<<<"o","r",":">>, 1>>,
                <<<<"i","f","T","r","u","e",":","i","f","F","a","l","s","e",":">>, 2>> >>)]]

\* SemanticAnalyzer.__init__: scopes["global"] (its parent and children links
\* are written and never read: they are left out)
global_scope ==
    [variables |-> {kw_self, kw_super, kw_nil, kw_true, kw_false},
     parameters |-> {}]

\* enter_scope that pushes nothing: the block writes into the scope it was
\* entered from.
enter_scope_in_place(scopes) == scopes

\* enter_scope: the scope stack with a new scope pushed
enter_scope(scopes) == Append(scopes, [variables |-> {}, parameters |-> {}])

\* exit_scope that leaves the scope of the block on the stack.
exit_scope_keeping(scopes) == scopes

\* exit_scope: current_scope.pop()
exit_scope(scopes) == SubSeq(scopes, 1, Len(scopes) - 1)

\* the scope stack with its innermost scope replaced
SetTop(scopes, scope) == [scopes EXCEPT ![Len(scopes)] = scope]

\* declare_variable that takes the parameters of the enclosing blocks for
\* parameters of the block too.
declare_variable_any_scope(scopes, variable) ==
    LET top == scopes[Len(scopes)] IN
    IF variable = n_underscore THEN [err |-> FALSE, scopes |-> scopes]
    ELSE IF \E k \in 1..Len(scopes) : variable \in scopes[k].parameters
    THEN [err |-> TRUE, scopes |-> scopes]
    ELSE [err |-> FALSE,
          scopes |-> SetTop(scopes, [top EXCEPT !.variables = @ \cup {variable}])]

\* declare_variable: err is the collision with a parameter of the same scope
declare_variable(scopes, variable) ==
    LET top == scopes[Len(scopes)] IN
    IF variable = n_underscore THEN [err |-> FALSE, scopes |-> scopes]
    ELSE IF variable \in top.parameters THEN [err |-> TRUE, scopes |-> scopes]
    ELSE [err |-> FALSE,
          scopes |-> SetTop(scopes, [top EXCEPT !.variables = @ \cup {variable}])]

\* declare_param that takes a parameter declared twice for one.
declare_param_overwriting(scopes, parameter) ==
    LET top == scopes[Len(scopes)] IN
    [err |-> FALSE,
     scopes |-> SetTop(scopes, [top EXCEPT !.parameters = @ \cup {parameter}])]

\* declare_param: err is the parameter being declared twice in the scope
declare_param(scopes, parameter) ==
    LET top == scopes[Len(scopes)] IN
    IF parameter \in top.parameters THEN [err |-> TRUE, scopes |-> scopes]
    ELSE [err |-> FALSE,
          scopes |-> SetTop(scopes, [top EXCEPT !.parameters = @ \cup {parameter}])]

RECURSIVE declare_params(_, _)
\* visit_block: for param in node.parameters: declare_param(param)
declare_params(scopes, parameters) ==
    IF parameters = <<>> THEN [err |-> FALSE, scopes |-> scopes]
    ELSE LET d == declare_param(scopes, Head(parameters)) IN
         IF d.err THEN d ELSE declare_params(d.scopes, Tail(parameters))

\* check_variable that looks "_" up like any other name.
check_variable_no_sink(scopes, variable) ==
    \E k \in 1..Len(scopes) :
        variable \in scopes[k].variables \/ variable \in scopes[k].parameters

\* check_variable
check_variable(scopes, variable) ==
    IF variable = n_underscore THEN TRUE
    ELSE \E k \in 1..Len(scopes) :
            variable \in scopes[k].variables \/ variable \in scopes[k].parameters

\* class_symtable.get(class_, {}).get("methods", {})
methods_of(table, class_) ==
    IF class_ \in DOMAIN table THEN table[class_].methods ELSE <<>>

\* class_symtable.get(class_, {}).get("parent")
parent_of(table, class_) ==
    IF class_ \in DOMAIN table THEN table[class_].parent ELSE None

\* the truth value of an Optional[str]: None and "" are false
truthy(opt) == ~opt.is_none /\ opt.val # <<>>

RECURSIVE circular_walk(_, _, _)
\* check_circular_dependency: the while loop; TRUE when it calls print_err
circular_walk(table, temp_class, visited) ==
    IF ~truthy(temp_class) THEN FALSE
    ELSE IF temp_class.val \in visited THEN TRUE
    ELSE circular_walk(table, parent_of(table, temp_class.val),
                       visited \cup {temp_class.val})

\* check_circular_dependency(class_name): TRUE when it calls print_err
check_circular_dependency(table, class_name) ==
    circular_walk(table, Some(class_name), {})

\* check_arity that reports only a selector with more colons than the block
\* has parameters.
check_arity_one_way(method_arity, param_count) == method_arity > param_count

\* check_arity: TRUE when it calls print_err
check_arity(method_arity, param_count) == method_arity # param_count

RECURSIVE declare_classes(_, _)
\* visit_program: "Declare all classes"
declare_classes(table, class_nodes) ==
    IF class_nodes = <<>> THEN [err |-> FALSE, table |-> table]
    ELSE LET class_name == Head(class_nodes).identifier IN
         IF class_name \in DOMAIN table THEN [err |-> TRUE, table |-> table]
         ELSE declare_classes(
                DictSet(table, class_name, [parent |-> None, methods |-> <<>>]),
                Tail(class_nodes))

RECURSIVE declare_parents(_, _)
\* visit_program: "Declare all parent classes"
declare_parents(table, class_nodes) ==
    IF class_nodes = <<>> THEN [err |-> FALSE, table |-> table]
    ELSE LET class_name == Head(class_nodes).identifier
             parent_class == Head(class_nodes).parent_class
         IN  IF parent_class \notin DOMAIN table THEN [err |-> TRUE, table |-> table]
             ELSE declare_parents(
                    [table EXCEPT ![class_name].parent = Some(parent_class)],
                    Tail(class_nodes))

RECURSIVE declare_methods(_, _, _)
\* visit_class: "First add all methods to symtable"
declare_methods(table, class_name, methods) ==
    IF methods = <<>> THEN [err |-> FALSE, table |-> table]
    ELSE LET method_id == Head(methods).selector
             arity == Head(methods).arity
         IN  IF method_id \in DOMAIN table[class_name].methods
             THEN [err |-> TRUE, table |-> table]
             ELSE declare_methods(
                    [table EXCEPT ![class_name].methods =
                        DictSet(@, method_id, [arity |-> arity])],
                    class_name, Tail(methods))

\* The child of an AST node that a visitor reaches by index i: a class of the
\* program, a method of a class, the block of a method (0), a statement of a
\* block, the expression of a statement (0), the receiver (0) or the i-th
\* argument of a send.
Child(node, i) ==
    CASE node.kind = "Program" -> node.class_nodes[i]
      [] node.kind = "Class" -> node.methods[i]
      [] node.kind = "Method" -> node.block
      [] node.kind = "Block" -> node.statements[i]
      [] node.kind = "Statement" -> node.expression
      [] node.kind = "Send" -> IF i = 0 THEN node.receiver ELSE node.args[i]

RECURSIVE NodeAt(_, _)
\* The node a reference held by the visitor points to: the one reached from
\* node by the child indices of path.
NodeAt(node, path) ==
    IF path = <<>> THEN node ELSE NodeAt(Child(node, Head(path)), Tail(path))

\* A pending call of the analyzer: node.accept(self) for the node at path,
\* exit_scope(), check_main_class(), or check_method's loop at class_.
Frame(op, path) == [op |-> op, path |-> path, class_ |-> None]
AcceptAll(path, indices) == [k \in 1..Len(indices) |-> Frame("accept", path \o <<indices[k]>>)]
\* 1, 2, ..., n
Indices(n) == [k \in 1..n |-> k]

\* the head of the agenda is node.accept(self) for a node of this kind
Visiting(kind) ==
    /\ pc = "visit"
    /\ agenda # <<>>
    /\ Head(agenda).op = "accept"
    /\ NodeAt(ast, Head(agenda).path).kind = kind

other_vars == <<stdin, main_locals, ast, stdout>>

\* SemanticAnalyzer.visit_program
VisitProgram ==
    /\ Visiting("Program")
    /\ LET node == NodeAt(ast, Head(agenda).path)
           declared == declare_classes(class_symtable, node.class_nodes)
           parented == declare_parents(declared.table, node.class_nodes)
       IN  IF declared.err THEN
               /\ print_err(SEMANTIC_ERROR_OTHER)
               /\ UNCHANGED <<class_symtable, agenda>>
           ELSE IF parented.err THEN
               /\ print_err(SEMANTIC_ERROR_UNDEFINED_USE)
               /\ UNCHANGED <<class_symtable, agenda>>
           ELSE
               /\ class_symtable' = parented.table
               /\ agenda' = AcceptAll(<<>>, Indices(Len(node.class_nodes))) \o Tail(agenda)
               /\ goes_on
    /\ UNCHANGED <<current_scope, current_class>>
    /\ UNCHANGED lexer_vars
    /\ UNCHANGED other_vars

\* SemanticAnalyzer.visit_class
VisitClass ==
    /\ Visiting("Class")
    /\ LET path == Head(agenda).path
           node == NodeAt(ast, path)
           class_name == node.identifier
           declared == declare_methods(class_symtable, class_name, node.methods)
       IN  /\ current_class' = Some(class_name)
           /\ IF check_circular_dependency(class_symtable, class_name) THEN
                  /\ print_err(SEMANTIC_ERROR_OTHER)
                  /\ UNCHANGED <<class_symtable, agenda>>
              ELSE IF declared.err THEN
                  /\ print_err(SEMANTIC_ERROR_OTHER)
                  /\ UNCHANGED <<class_symtable, agenda>>
              ELSE
                  /\ class_symtable' = declared.table
                  /\ agenda' = AcceptAll(path, Indices(Len(node.methods))) \o Tail(agenda)
                  /\ goes_on
    /\ UNCHANGED current_scope
    /\ UNCHANGED lexer_vars
    /\ UNCHANGED other_vars

\* SemanticAnalyzer.visit_method
VisitMethod ==
    /\ Visiting("Method")
    /\ LET path == Head(agenda).path
           node == NodeAt(ast, path)
       IN  IF check_arity(node.arity, node.block.param_count) THEN
               /\ print_err(SEMANTIC_ERROR_MISSMATCH)
               /\ UNCHANGED agenda
           ELSE
               /\ agenda' = <<Frame("accept", path \o <<0>>)>> \o Tail(agenda)
               /\ goes_on
    /\ UNCHANGED <<class_symtable, current_scope, current_class>>
    /\ UNCHANGED lexer_vars
    /\ UNCHANGED other_vars

\* SemanticAnalyzer.visit_block, up to its loop over the statements
VisitBlock ==
    /\ Visiting("Block")
    /\ LET path == Head(agenda).path
           node == NodeAt(ast, path)
           declared == declare_params(enter_scope(current_scope), node.parameters)
       IN  IF declared.err THEN
               /\ print_err(SEMANTIC_ERROR_OTHER)
               /\ UNCHANGED <<current_scope, agenda>>
           ELSE
               /\ current_scope' = declared.scopes
               /\ agenda' = AcceptAll(path, Indices(Len(node.statements)))
                            \o <<Frame("exit_scope", path)>> \o Tail(agenda)
               /\ goes_on
    /\ UNCHANGED <<class_symtable, current_class>>
    /\ UNCHANGED lexer_vars
    /\ UNCHANGED other_vars

\* SemanticAnalyzer.visit_block: self.exit_scope(), after the statements
ExitScope ==
    /\ pc = "visit"
    /\ agenda # <<>>
    /\ Head(agenda).op = "exit_scope"
    /\ current_scope' = exit_scope(current_scope)
    /\ agenda' = Tail(agenda)
    /\ goes_on
    /\ UNCHANGED <<class_symtable, current_class>>
    /\ UNCHANGED lexer_vars
    /\ UNCHANGED other_vars

\* SemanticAnalyzer.visit_statement
VisitStatement ==
    /\ Visiting("Statement")
    /\ LET path == Head(agenda).path
           node == NodeAt(ast, path)
           declared == declare_variable(current_scope, node.identifier)
       IN  IF declared.err THEN
               /\ print_err(SEMANTIC_ERROR_VAR_COLLISION)
               /\ UNCHANGED <<current_scope, agenda>>
           ELSE
               /\ current_scope' = declared.scopes
               /\ agenda' = <<Frame("accept", path \o <<0>>)>> \o Tail(agenda)
               /\ goes_on
    /\ UNCHANGED <<class_symtable, current_class>>
    /\ UNCHANGED lexer_vars
    /\ UNCHANGED other_vars

\* hasattr(node.receiver, 'type') and node.receiver.type == "class"
is_class_literal(node) == node.kind = "Literal" /\ node.type = <<"c","l","a","s","s">>

\* visit_send: node.receiver.accept(self), then arg.accept(self) for each arg
send_children(path, node) ==
    <<Frame("accept", path \o <<0>>)>> \o AcceptAll(path, Indices(Len(node.args)))

\* SemanticAnalyzer.visit_send, up to the call of check_method (or, for a
\* receiver that is no class literal, up to the visits of its children)
VisitSend ==
    /\ Visiting("Send")
    /\ LET path == Head(agenda).path
           node == NodeAt(ast, path)
       IN  IF is_class_literal(node.receiver)
           THEN agenda' = <<[op |-> "check_method", path |-> path,
                             class_ |-> Some(node.receiver.value)]>> \o Tail(agenda)
           ELSE agenda' = send_children(path, node) \o Tail(agenda)
    /\ goes_on
    /\ UNCHANGED <<class_symtable, current_scope, current_class>>
    /\ UNCHANGED lexer_vars
    /\ UNCHANGED other_vars

\* SemanticAnalyzer.check_method: one test of its while loop, as called by
\* visit_send. The loop ending (class_ false) returns None, and visit_send
\* reports the undefined method; the selector found returns True, and
\* visit_send goes on to its children.
CheckMethodStep ==
    /\ pc = "visit"
    /\ agenda # <<>>
    /\ Head(agenda).op = "check_method"
    /\ LET path == Head(agenda).path
           node == NodeAt(ast, path)
           class_ == Head(agenda).class_
       IN  IF ~truthy(class_) THEN
               /\ print_err(SEMANTIC_ERROR_UNDEFINED_USE)
               /\ UNCHANGED agenda
           ELSE IF node.selector \in DOMAIN methods_of(class_symtable, class_.val) THEN
               /\ agenda' = send_children(path, node) \o Tail(agenda)
               /\ goes_on
           ELSE
               /\ agenda' = <<[Head(agenda) EXCEPT
                                 !.class_ = parent_of(class_symtable, class_.val)]>>
                            \o Tail(agenda)
               /\ goes_on
    /\ UNCHANGED <<class_symtable, current_scope, current_class>>
    /\ UNCHANGED lexer_vars
    /\ UNCHANGED other_vars

\* SemanticAnalyzer.visit_variable
VisitVariable ==
    /\ Visiting("Variable")
    /\ LET node == NodeAt(ast, Head(agenda).path) IN
       IF check_variable(current_scope, node.name) = FALSE THEN
           /\ print_err(SEMANTIC_ERROR_UNDEFINED_USE)
           /\ UNCHANGED agenda
       ELSE
           /\ agenda' = Tail(agenda)
           /\ goes_on
    /\ UNCHANGED <<class_symtable, current_scope, current_class>>
    /\ UNCHANGED lexer_vars
    /\ UNCHANGED other_vars

\* check_class: TRUE when it calls print_err
check_class(table, class_id) == class_id \notin DOMAIN table

\* SemanticAnalyzer.visit_literal
VisitLiteral ==
    /\ Visiting("Literal")
    /\ LET node == NodeAt(ast, Head(agenda).path) IN
       IF node.type = <<"c","l","a","s","s">> /\ check_class(class_symtable, node.value) THEN
           /\ print_err(SEMANTIC_ERROR_UNDEFINED_USE)
           /\ UNCHANGED agenda
       ELSE
           /\ agenda' = Tail(agenda)
           /\ goes_on
    /\ UNCHANGED <<class_symtable, current_scope, current_class>>
    /\ UNCHANGED lexer_vars
    /\ UNCHANGED other_vars

\* check_main_class that takes a run of an ancestor of Main for Main's.
check_main_class_inherited(table) ==
    IF n_Main \notin DOMAIN table THEN SEMANTIC_ERROR_MISSING_MAIN
    ELSE IF \A c \in DOMAIN table : n_run \notin DOMAIN table[c].methods
    THEN SEMANTIC_ERROR_MISSING_MAIN
    ELSE 0

\* check_main_class: 0 when it returns, else the error it reports
check_main_class(table) ==
    IF n_Main \notin DOMAIN table THEN SEMANTIC_ERROR_MISSING_MAIN
    ELSE IF n_run \notin DOMAIN table[n_Main].methods THEN SEMANTIC_ERROR_MISSING_MAIN
    ELSE 0

\* SemanticAnalyzer.analyze: self.check_main_class()
CheckMainClass ==
    /\ pc = "visit"
    /\ agenda # <<>>
    /\ Head(agenda).op = "check_main_class"
    /\ IF check_main_class(class_symtable) # 0 THEN
           /\ print_err(check_main_class(class_symtable))
           /\ UNCHANGED agenda
       ELSE
           /\ agenda' = Tail(agenda)
           /\ goes_on
    /\ UNCHANGED <<class_symtable, current_scope, current_class>>
    /\ UNCHANGED lexer_vars
    /\ UNCHANGED other_vars

(***************************************************************************)
(* XMLVisitor                                                              *)
(***************************************************************************)
\* ET.Element(tag, attributes) with its children; an attribute is a pair
\* <<name, value>>, in the order ElementTree keeps them.
Element(tag, attrs, children) == [tag |-> tag, attrs |-> attrs, children |-> children]

digit_chars == <<"0","1","2","3","4","5","6","7","8","9">>

RECURSIVE str(_)
\* str(n) for a natural number n
str(n) ==
    IF n < 10 THEN <<digit_chars[n + 1]>>
    ELSE str(n \div 10) \o <<digit_chars[(n % 10) + 1]>>

RECURSIVE xml_accept(_)
\* node.accept(xml_visitor): the element of an AST node
xml_accept(node) ==
    CASE node.kind = "Class" ->
           \* XMLVisitor.visit_class
           Element("class", << <<"name", node.identifier>>, <<"parent", node.parent_class>> >>,
                   [k \in 1..Len(node.methods) |-> xml_accept(node.methods[k])])
      [] node.kind = "Method" ->
           \* XMLVisitor.visit_method
           Element("method", << <<"selector", node.selector>> >>, <<xml_accept(node.block)>>)
      [] node.kind = "Block" ->
           \* XMLVisitor.visit_block
           Element("block", << <<"arity", str(node.param_count)>> >>,
                   [k \in 1..Len(node.parameters) |->
                       Element("parameter", << <<"name", node.parameters[k]>>,
                                               <<"order", str(k)>> >>, <<>>)]
                   \o
                   [k \in 1..Len(node.statements) |->
                       Element("assign", << <<"order", str(k)>> >>,
                               << Element("var", << <<"name", node.statements[k].identifier>> >>, <<>>),
                                  xml_accept(node.statements[k]) >>)])
      [] node.kind = "Statement" ->
           \* XMLVisitor.visit_statement
           Element("expr", <<>>, <<xml_accept(node.expression)>>)
      [] node.kind = "Send" ->
           \* XMLVisitor.visit_send
           Element("send", << <<"selector", node.selector>> >>,
                   << Element("expr", <<>>, <<xml_accept(node.receiver)>>) >>
                   \o
                   [k \in 1..Len(node.args) |->
                       Element("arg", << <<"order", str(k)>> >>,
                               << Element("expr", <<>>, <<xml_accept(node.args[k])>>) >>)])
      [] node.kind = "Variable" ->
           \* XMLVisitor.visit_variable
           Element("var", << <<"name", node.name>> >>, <<>>)
      [] node.kind = "Literal" ->
           \* XMLVisitor.visit_literal
           LET value == IF Len(node.value) >= 1 /\ Head(node.value) = "'"
                           /\ node.value[Len(node.value)] = "'"
                        THEN SubSeq(node.value, 2, Len(node.value) - 1)
                        ELSE node.value
           IN  Element("literal", << <<"class", node.type>>, <<"value", value>> >>, <<>>)

\* A serializer that emits the class elements last-declared first.
xml_visit_program_reversed(node) ==
    Element("program",
            << <<"language", <<"S","O","L","2","5">>>> >>
            \o (IF node.first_comment # <<>>
                THEN << <<"description", node.first_comment>> >> ELSE <<>>),
            [k \in 1..Len(node.class_nodes) |->
                xml_accept(node.class_nodes[Len(node.class_nodes) + 1 - k])])

\* XMLVisitor.visit_program: the program element. prettify lays this tree out
\* as indented text under an XML declaration; the layout is not modelled.
xml_visit_program(node) ==
    Element("program",
            << <<"language", <<"S","O","L","2","5">>>> >>
            \o (IF node.first_comment # <<>>
                THEN << <<"description", node.first_comment>> >> ELSE <<>>),
            [k \in 1..Len(node.class_nodes) |-> xml_accept(node.class_nodes[k])])

(***************************************************************************)
(* main                                                                    *)
(***************************************************************************)
\* main with the analysis left out: the serializer follows the parser.
stage_after_skipping_analysis(stage) ==
    CASE stage = "tokenize" -> "parse"
      [] stage = "parse" -> "serialize"
      [] stage = "visit" -> "serialize"
      [] stage = "serialize" -> "print"

\* The stage main runs once the stage given has returned.
stage_after(stage) ==
    CASE stage = "tokenize" -> "parse"
      [] stage = "parse" -> "analyze"
      [] stage = "visit" -> "serialize"
      [] stage = "serialize" -> "print"

\* lexer = Lexer(sys.stdin.read()), and the call of lexer.tokenize()
MainLexer ==
    /\ pc = "start"
    /\ src_code' = stdin
    /\ idx' = 1
    /\ comment_flag' = FALSE
    /\ first_comment' = None
    /\ tokens' = <<>>
    /\ main_locals' = Append(main_locals, "lexer")
    /\ pc' = "tokenize"
    /\ UNCHANGED <<stdin, ast, stdout, exit_code, exception>>
    /\ UNCHANGED analyzer_vars

\* tokenize's loop ends: tokens, first_comment = lexer.tokenize()
LexReturn ==
    /\ pc = "tokenize"
    /\ idx > Len(src_code)
    /\ main_locals' = main_locals \o <<"tokens", "first_comment">>
    /\ pc' = stage_after("tokenize")
    /\ UNCHANGED <<stdin, ast, stdout, exit_code, exception>>
    /\ UNCHANGED lexer_vars
    /\ UNCHANGED analyzer_vars

\* parser = Parser(tokens); ast_root = parser.parse_program(first_comment)
MainParser ==
    /\ pc = "parse"
    /\ LET parsed == parse_program(tokens, first_comment) IN
       IF parsed.st = "ok" THEN
           /\ ast' = parsed.node
           /\ main_locals' = main_locals \o <<"parser", "ast_root">>
           /\ pc' = stage_after("parse")
           /\ UNCHANGED <<exit_code, exception>>
       ELSE IF parsed.st = "syntax" THEN
           /\ print_err(SYNTAX_ERROR)
           /\ main_locals' = Append(main_locals, "parser")
           /\ UNCHANGED ast
       ELSE
           /\ raise("UnboundLocalError")
           /\ main_locals' = Append(main_locals, "parser")
           /\ UNCHANGED ast
    /\ UNCHANGED <<stdin, stdout>>
    /\ UNCHANGED lexer_vars
    /\ UNCHANGED analyzer_vars

\* semantic_analyzer = SemanticAnalyzer(), and the call of analyze(ast_root),
\* which is visit_program(ast) and then check_main_class()
MainAnalyzer ==
    /\ pc = "analyze"
    /\ class_symtable' = builtin_symtable
    /\ current_scope' = <<global_scope>>
    /\ current_class' = None
    /\ agenda' = <<Frame("accept", <<>>), Frame("check_main_class", <<>>)>>
    /\ main_locals' = Append(main_locals, "semantic_analyzer")
    /\ pc' = "visit"
    /\ UNCHANGED <<stdin, ast, stdout, exit_code, exception>>
    /\ UNCHANGED lexer_vars

\* analyze returns
AnalyzeReturn ==
    /\ pc = "visit"
    /\ agenda = <<>>
    /\ pc' = stage_after("visit")
    /\ UNCHANGED <<stdin, main_locals, ast, stdout, exit_code, exception>>
    /\ UNCHANGED lexer_vars
    /\ UNCHANGED analyzer_vars

\* xml_visitor = XMLVisitor()
MainXmlVisitor ==
    /\ pc = "serialize"
    /\ main_locals' = Append(main_locals, "xml_visitor")
    /\ pc' = stage_after("serialize")
    /\ UNCHANGED <<stdin, ast, stdout, exit_code, exception>>
    /\ UNCHANGED lexer_vars
    /\ UNCHANGED analyzer_vars

\* print(ast_root.accept(xml_visitor)), and main returns
MainPrint ==
    /\ pc = "print"
    /\ stdout' = Append(stdout, xml_visit_program(ast))
    /\ pc' = "exit"
    /\ exit_code' = EXIT_SUCCESS
    /\ UNCHANGED <<stdin, main_locals, ast, exception>>
    /\ UNCHANGED lexer_vars
    /\ UNCHANGED analyzer_vars

LexerNext == MainLexer \/ LexStep \/ LexReturn

AnalyzerNext ==
    \/ MainAnalyzer
    \/ VisitProgram
    \/ VisitClass
    \/ VisitMethod
    \/ VisitBlock
    \/ ExitScope
    \/ VisitStatement
    \/ VisitSend
    \/ CheckMethodStep
    \/ VisitVariable
    \/ VisitLiteral
    \/ CheckMainClass
    \/ AnalyzeReturn

Next ==
    \/ LexerNext
    \/ MainParser
    \/ AnalyzerNext
    \/ MainXmlVisitor
    \/ MainPrint

(***************************************************************************)
(* The runs checked: main on a source text                                 *)
(***************************************************************************)
\* The state in which main starts on source text source.
Started(source) ==
    /\ stdin = source
    /\ pc = "start"
    /\ main_locals = <<>>
    /\ src_code = <<>>
    /\ idx = 1
    /\ comment_flag = FALSE
    /\ first_comment = None
    /\ tokens = <<>>
    /\ ast = NoNode
    /\ class_symtable = <<>>
    /\ current_scope = <<>>
    /\ current_class = None
    /\ agenda = <<>>
    /\ stdout = <<>>
    /\ exit_code = NoExit
    /\ exception = "None"

sp == <<" ">>

\* One-class programs with a choice at each place: the class name, its
\* parent, the method header, the block parameters, the statement, and what
\* follows the class.
SourceNames == {<<"M","a","i","n">>, <<"A">>}
SourceParents == {<<"O","b","j","e","c","t">>, <<"A">>}
SourceHeaders == {<<"r","u","n">>, <<"r","u","n",":">>, <<>>, <<"r","u","n"," ","f","o","o",":">>, <<"#">>}
SourceParams == {<<>>, <<":","x">>, <<":","x"," ",":","x">>}
SourceStatements == {<<>>, <<"x"," ",":","="," ","5",".">>, <<"y"," ",":","="," ","x",".">>, <<"y"," ",":","="," ","5">>,
                     <<"y"," ",":","="," ","M","a","i","n"," ","n","e","w",".">>, <<"x"," ",":","="," ","'","a","'"," ","f","o","o",":"," ","1",".">>}
SourceTails == {<<>>, <<"\n","\"","c","\"">>, <<"\"","c">>, <<"}">>}

Sources ==
    { <<"c","l","a","s","s"," ">> \o n \o <<" ",":"," ">> \o p \o <<" ","{"," ">> \o h \o <<" ","["," ">> \o a \o <<" ","|"," ">>
      \o s \o <<" ","]"," ","}"," ">> \o t :
        n \in SourceNames, p \in SourceParents, h \in SourceHeaders,
        a \in SourceParams, s \in SourceStatements, t \in SourceTails }

Init == \E source \in Sources : Started(source)

Spec == Init /\ [][Next]_vars

(***************************************************************************)
(* The runs checked: the tokenizer on texts made of a few words            *)
(***************************************************************************)
\* The number of words a tokenizer input is made of, at most.
MaxWords == 3

\* all sequences over S of length at most n
SeqsUpTo(S, n) == UNION {[1..k -> S] : k \in 0..n}

\* Keywords and builtin class names, the word endings that make them a
\* longer identifier, and the separators that keep them apart.
LexerWords == {<<"c","l","a","s","s">>, <<"s","e","l","f">>, <<"n","i","l">>, <<"O","b","j","e","c","t">>, <<"I","n","t","e","g","e","r">>,
               <<"e","s">>, <<"x">>, <<"s">>, <<"2">>, <<":">>, <<" ">>,
               <<"\"", "c", "\"">>, <<"\"", "\"">>}

LexerSources == {Concat(ws) : ws \in SeqsUpTo(LexerWords, MaxWords)}

InitLexer == \E source \in LexerSources : Started(source)

SpecLexer == InitLexer /\ [][LexerNext]_vars

(***************************************************************************)
(* The runs checked: the parser on token sequences                         *)
(***************************************************************************)
\* The tokens the tokenizer makes of these texts.
K_class == Token("CLASS_KW", kw_class)
T_assign == Token("ASSIGN", <<":","=">>)
T_dot == Token("DOT", <<".">>)
T_colon == Token("COLON", <<":">>)
T_lbrace == Token("L_BRACE", <<"{">>)
T_rbrace == Token("R_BRACE", <<"}">>)
T_lbracket == Token("L_BRACKET", <<"[">>)
T_rbracket == Token("R_BRACKET", <<"]">>)
T_lparent == Token("L_PARENT", <<"(">>)
T_rparent == Token("R_PARENT", <<")">>)
T_pipe == Token("PIPE", <<"|">>)
Id(name) == Token("IDENTIFIER", name)
Sel(name) == Token("SELECTOR", name)
IntTok(text) == Token("INTEGER", text)
Cls(name) ==
    IF name = bc_Object THEN Token("OBJECT_BC", name) ELSE Token("CLASS_IDENTIFIER", name)

\* The token sequences of a block, a statement and a class declaration.
BlockTokens(params, statements) ==
    <<T_lbracket>> \o Concat([k \in 1..Len(params) |-> <<T_colon, Id(params[k])>>])
    \o <<T_pipe>> \o statements \o <<T_rbracket>>
StatementTokens(target, expression) ==
    <<Id(target), T_assign>> \o expression \o <<T_dot>>
ClassTokens(name, parent, methods) ==
    <<K_class, Cls(name), T_colon, Cls(parent), T_lbrace>> \o methods \o <<T_rbrace>>

\* A text the tokenizer turns into the token sequence toks.
Unlex(toks) == Concat([k \in 1..Len(toks) |-> toks[k].value \o <<" ">>])

\* The state in which main, having tokenized a text with no comment into
\* toks, goes on to the parser.
Tokenized(toks) ==
    /\ stdin = Unlex(toks)
    /\ pc = "parse"
    /\ main_locals = <<"lexer", "tokens", "first_comment">>
    /\ src_code = Unlex(toks)
    /\ idx = Len(Unlex(toks)) + 1
    /\ comment_flag = FALSE
    /\ first_comment = None
    /\ tokens = toks
    /\ ast = NoNode
    /\ class_symtable = <<>>
    /\ current_scope = <<>>
    /\ current_class = None
    /\ agenda = <<>>
    /\ stdout = <<>>
    /\ exit_code = NoExit
    /\ exception = "None"

\* The number of tokens before the block of a method, at most.
MaxHeader == 3
\* The number of tokens of a statement's expression, at most.
MaxExpr == 4

n_x == <<"x">>
n_y == <<"y">>

\* class Main : Object { <header> [ | ] } for every header of identifiers and
\* selector fragments
HeaderWords == {Id(<<"r","u","n">>), Sel(<<"f","o","o",":">>), Sel(<<"b","a","r",":">>)}
HeaderPrograms ==
    {ClassTokens(n_Main, n_Object, h \o BlockTokens(<<>>, <<>>)) :
        h \in SeqsUpTo(HeaderWords, MaxHeader)}

\* the tokens of "class Main : Object { run [ | x :=", after which the
\* expression of the statement starts
ExprPrefix ==
    <<K_class, Cls(n_Main), T_colon, Cls(n_Object), T_lbrace, Id(n_run),
      T_lbracket, T_pipe, Id(n_x), T_assign>>
ExprSuffix == <<T_dot, T_rbracket, T_rbrace>>

\* class Main : Object { run [ | x := <expression> . ] } for every sequence
\* of expression tokens
ExprWords == {IntTok(<<"5">>), Id(n_x), Id(<<"b","a","r">>), Sel(<<"f","o","o",":">>), Sel(<<"b","a","z",":">>),
              T_lparent, T_rparent}
ExprPrograms ==
    {ExprPrefix \o e \o ExprSuffix : e \in SeqsUpTo(ExprWords, MaxExpr)}

\* A program of two classes, and everything it can be cut down to.
ReferenceProgram ==
    ClassTokens(n_Main, n_Object,
        <<Id(n_run)>> \o BlockTokens(<<>>,
            StatementTokens(n_x, <<Cls(<<"A">>), Id(<<"n","e","w">>)>>)
            \o StatementTokens(n_y, <<Id(n_x), Sel(<<"f","o","o",":">>), T_lparent, IntTok(<<"5">>),
                                     Id(<<"b","a","r">>), T_rparent>>)))
    \o ClassTokens(<<"A">>, n_Main,
        <<Sel(<<"f","o","o",":">>)>> \o BlockTokens(<<n_x>>,
            StatementTokens(n_y, BlockTokens(<<n_y>>, <<>>))))
TruncatedPrograms ==
    {SubSeq(ReferenceProgram, 1, k) : k \in 0..Len(ReferenceProgram)}

ParserInputs == HeaderPrograms \cup ExprPrograms \cup TruncatedPrograms

InitParser == \E toks \in ParserInputs : Tokenized(toks)

SpecParser == InitParser /\ [][MainParser]_vars

(***************************************************************************)
(* Properties of main, the tokenizer and the parser                        *)
(***************************************************************************)
\* main's local names in the order its statements bind them
StageLocals ==
    <<"lexer", "tokens", "first_comment", "parser", "ast_root",
      "semantic_analyzer", "xml_visitor">>

IsPrefix(a, b) == Len(a) <= Len(b) /\ a = SubSeq(b, 1, Len(a))

\* C1: the stages run in the order tokenizer, parser, semantic analyzer,
\* serializer, each bound only after the one before it has returned; the
\* document is written only once all four have been created and the analysis
\* has finished; and a run that ends with a non-zero status has written
\* nothing, ends in the stage that failed (21 in the tokenizer, 22 or an
\* uncaught exception in the parser, 31 to 35 in the analyzer) and takes no
\* further step.
C1_StagesInOrder ==
    /\ IsPrefix(main_locals, StageLocals)
    /\ stdout # <<>> =>
          /\ main_locals = StageLocals
          /\ agenda = <<>>
          /\ exit_code = EXIT_SUCCESS
    /\ exit_code \notin {NoExit, EXIT_SUCCESS} =>
          /\ stdout = <<>>
          /\ ~ENABLED Next
          /\ exit_code = LEXICAL_ERROR => main_locals = <<"lexer">>
          /\ exit_code \in {SYNTAX_ERROR, UNCAUGHT_EXCEPTION} =>
                main_locals = SubSeq(StageLocals, 1, 4)
          /\ exit_code \in SEMANTIC_ERROR_MISSING_MAIN..SEMANTIC_ERROR_OTHER =>
                main_locals = SubSeq(StageLocals, 1, 6)
          /\ exit_code \in {LEXICAL_ERROR, SYNTAX_ERROR, UNCAUGHT_EXCEPTION}
                           \cup (SEMANTIC_ERROR_MISSING_MAIN..SEMANTIC_ERROR_OTHER)

\* A run that the analyzer ended with the arity error: three stages were
\* started, the serializer never was, and nothing was written.
C1_FailedInAnalysis ==
    /\ pc = "exit"
    /\ exit_code = SEMANTIC_ERROR_MISSMATCH
    /\ main_locals = SubSeq(StageLocals, 1, 6)
    /\ stdout = <<>>

\* C2: once the parser has run, either parse_program has returned a Program
\* node and the run goes on, or the run has ended with the syntax error 22;
\* there is no third outcome.
C2_ProgramOrSyntaxError ==
    "parser" \in Range(main_locals) =>
        \/ /\ exit_code = NoExit
           /\ exception = "None"
           /\ ast # NoNode
           /\ ast.kind = "Program"
        \/ /\ pc = "exit"
           /\ exit_code = SYNTAX_ERROR
           /\ exception = "None"

\* The length of the longest prefix of s from position i on that any lexical
\* class matches.
LongestMatch(s, i) ==
    LET arr == token_tuple_arr(s, i)
        lens == {arr[k].len : k \in 1..Len(arr)}
    IN  CHOOSE n \in lens : \A m \in lens : m <= n

\* C5: every iteration of the tokenizer that goes through moves the cursor by
\* the length of the longest prefix any lexical class matches at the cursor.
C5_LongestPrefix ==
    [][LexStep /\ exit_code' = NoExit => idx' - idx = LongestMatch(src_code, idx)]_vars

\* The parser at token k of toks.
ParserAt(toks, k) == [token_idx |-> k, current_token |-> toks[k]]

\* Where the expression of the statement of an ExprPrograms text starts, and
\* where its tree is in the program's tree.
ExprStart == Len(ExprPrefix) + 1
ExprPath == <<1, 1, 0, 1, 0>>

\* C9: in a parsed "class Main : Object { run [ | x := E . ] }", the tree of E
\* is the base of E itself exactly when "." follows the base, and otherwise it
\* is a Send whose receiver is the base, the base being followed by an
\* identifier or a selector fragment; the same holds with ")" of the
\* expression between the parentheses when E starts with "("; and the tree of
\* "x := 5." is the integer literal 5.
C9_BaseOrSend ==
    (/\ pc = "analyze"
     /\ Len(tokens) > Len(ExprPrefix)
     /\ SubSeq(tokens, 1, Len(ExprPrefix)) = ExprPrefix) =>
        LET base == parse_expression_base(tokens, ParserAt(tokens, ExprStart))
            inner == parse_expression_base(tokens, ParserAt(tokens, ExprStart + 1))
            expression == NodeAt(ast, ExprPath)
        IN  /\ (expression = base.node) <=> check_token(base.p.current_token, "DOT")
            /\ expression # base.node =>
                  /\ expression.kind = "Send"
                  /\ expression.receiver = base.node
                  /\ base.p.current_token.type \in {"IDENTIFIER", "SELECTOR"}
            /\ check_token(tokens[ExprStart], "L_PARENT") =>
                  /\ (base.node = inner.node)
                        <=> check_token(inner.p.current_token, "R_PARENT")
                  /\ base.node # inner.node =>
                        /\ base.node.kind = "Send"
                        /\ base.node.receiver = inner.node
                        /\ inner.p.current_token.type \in {"IDENTIFIER", "SELECTOR"}
            /\ tokens = ExprPrefix \o <<IntTok(<<"5">>)>> \o ExprSuffix =>
                  expression = LiteralNode(TokenTypeValue("INTEGER"), <<"5">>)

\* "x := ( 5 ) ." has been parsed: both terminators follow a base at once,
\* and the tree of the expression is the literal.
C9_ParenthesizedLiteral ==
    /\ pc = "analyze"
    /\ tokens = ExprPrefix \o <<T_lparent, IntTok(<<"5">>), T_rparent>> \o ExprSuffix
    /\ NodeAt(ast, ExprPath) = LiteralNode(TokenTypeValue("INTEGER"), <<"5">>)

\* A method header that mixes the two forms of a selector: one identifier,
\* then one or more selector fragments.
IsMixedHeader(h) ==
    /\ Len(h) >= 2
    /\ h[1].type = "IDENTIFIER"
    /\ \A k \in 2..Len(h) : h[k].type = "SELECTOR"

\* C10: once the parser has run on "class Main : Object { H [ | ] }" with a
\* mixed header H, the run has ended with the syntax error 22 and there is
\* no tree.
C10_MixedSelectorRejected ==
    (/\ "parser" \in Range(main_locals)
     /\ \E h \in SeqsUpTo(HeaderWords, MaxHeader) :
           /\ IsMixedHeader(h)
           /\ tokens = ClassTokens(n_Main, n_Object, h \o BlockTokens(<<>>, <<>>))) =>
        /\ exit_code = SYNTAX_ERROR
        /\ ast = NoNode

(***************************************************************************)
(* The runs checked: the parser and the analyzer on programs               *)
(***************************************************************************)
\* The number of classes of a hierarchy, the number of methods of a class
\* and the number of statements of a method body, at most.
MaxClasses == 3
MaxMethods == 2
MaxStmts == 2

n_A == <<"A">>
n_B == <<"B">>
n_C == <<"C">>
n_z == <<"z">>
n_foo == <<"f","o","o">>

\* the sequences of n distinct elements of S
Arrangements(S, n) ==
    {s \in [1..n -> S] : \A i, j \in 1..n : i # j => s[i] # s[j]}

\* run [ | ]
RunMethod == <<Id(n_run)>> \o BlockTokens(<<>>, <<>>)
\* foo [ | ]
FooMethod == <<Id(n_foo)>> \o BlockTokens(<<>>, <<>>)

\* Hierarchies: up to MaxClasses classes in every order, each parented on
\* Object or on any class of the program, itself included; Main declares run.
ClassPool == {n_Main, n_A, n_B, n_C}
HierarchyPrograms ==
    UNION {
        {Concat([k \in 1..Len(cs) |->
                    ClassTokens(cs[k], ps[k],
                                IF cs[k] = n_Main THEN RunMethod ELSE <<>>)]) :
            ps \in [1..Len(cs) -> {n_Object} \cup Range(cs)]} :
        cs \in UNION {Arrangements(ClassPool, n) : n \in 1..MaxClasses}}

\* Sends to a class: Main : Object { run [ | x := R sel . ] }, A and B in
\* every order around it, each parented on Object, A or B and declaring foo
\* or nothing.
SendPrograms ==
    {Concat([k \in 1..3 |-> order[k]]) :
        order \in UNION {
            Arrangements(
                {ClassTokens(n_Main, n_Object,
                    <<Id(n_run)>> \o BlockTokens(<<>>,
                        StatementTokens(n_x, <<Cls(r), Id(sel)>>))),
                 ClassTokens(n_A, pa, ma),
                 ClassTokens(n_B, pb, mb)}, 3) :
            r \in {n_A, n_B}, sel \in {n_foo, <<"n","e","w">>},
            pa \in {n_Object, n_A, n_B}, pb \in {n_Object, n_A, n_B},
            ma \in {<<>>, FooMethod}, mb \in {<<>>, FooMethod}}}

\* Entry points: Main and A, in both orders or alone, Main parented on Object
\* or on A, each declaring nothing, run, run: or foo.
EntryMethods ==
    {<<>>, RunMethod, FooMethod, <<Sel(<<"r","u","n",":">>)>> \o BlockTokens(<<n_x>>, <<>>)}
EntryPrograms ==
    {ClassTokens(n_Main, n_Object, m) : m \in EntryMethods}
    \cup {ClassTokens(n_A, n_Object, m) : m \in EntryMethods}
    \cup UNION {
        {ClassTokens(n_Main, p, mm) \o ClassTokens(n_A, n_Object, ma),
         ClassTokens(n_A, n_Object, ma) \o ClassTokens(n_Main, p, mm)} :
        p \in {n_Object, n_A}, mm \in EntryMethods, ma \in EntryMethods}

\* Methods: class Main : Object with up to MaxMethods methods, each a header
\* (an identifier, selector fragments, or the two mixed) and a block of zero,
\* one or two parameters.
MethodHeaders ==
    {<<Id(n_run)>>, <<Sel(<<"f","o","o",":">>)>>, <<Sel(<<"f","o","o",":">>), Sel(<<"b","a","r",":">>)>>,
     <<Id(n_run), Sel(<<"f","o","o",":">>)>>}
MethodParams == {<<>>, <<n_x>>, <<n_x, n_y>>, <<n_x, n_x>>}
MethodPool ==
    {h \o BlockTokens(ps, <<>>) : h \in MethodHeaders, ps \in MethodParams}
MethodPrograms ==
    {ClassTokens(n_Main, n_Object, Concat(ms)) : ms \in SeqsUpTo(MethodPool, MaxMethods)}

\* Scopes: class Main : Object { foo: [ :z | S ... ] run [ | ] } with up to
\* MaxStmts statements S, each an assignment of a literal or a variable, of a
\* block that holds such an assignment, or one of a few more.
T_self == Token("SELF_KW", kw_self)
ScopeTargets == {n_x, n_y}
ScopeAtoms == {IntTok(<<"5">>), Id(n_x), Id(n_y), Id(n_z)}
ScopeStatements ==
    {StatementTokens(t, <<a>>) : t \in ScopeTargets, a \in ScopeAtoms}
    \cup {StatementTokens(n_y, BlockTokens(ps, StatementTokens(t, <<a>>))) :
            ps \in {<<>>, <<n_x>>}, t \in ScopeTargets, a \in {Id(n_x), Id(n_y), Id(n_z)}}
    \cup {StatementTokens(n_underscore, <<Id(n_y)>>),
          StatementTokens(n_y, <<Id(n_underscore)>>),
          StatementTokens(n_y, <<T_self>>),
          StatementTokens(n_x, <<Id(n_y), Sel(<<"f","o","o",":">>), Id(n_x)>>),
          StatementTokens(n_x, <<Cls(n_Main), Id(<<"n","e","w">>)>>),
          StatementTokens(n_y, BlockTokens(<<n_x, n_x>>, <<>>))}
ScopePrograms ==
    {ClassTokens(n_Main, n_Object,
        <<Sel(<<"f","o","o",":">>)>> \o BlockTokens(<<n_z>>, Concat(body)) \o RunMethod) :
        body \in SeqsUpTo(ScopeStatements, MaxStmts)}

\* Targets: class Main : Object { foo: [ :z | y := [ ps | t := a . ] . ] run [ | ] }
\* for parameter lists ps, targets t and values a that include "_" and the
\* parameter of the enclosing block, and foo: [ :z | t := a . ] itself.
TargetPrograms ==
    {ClassTokens(n_Main, n_Object,
        <<Sel(<<"f","o","o",":">>)>>
        \o BlockTokens(<<n_z>>,
              StatementTokens(n_y, BlockTokens(ps, StatementTokens(t, <<a>>))))
        \o RunMethod) :
        ps \in {<<>>, <<n_x>>, <<n_z>>, <<n_underscore>>, <<n_x, n_underscore>>},
        t \in {n_x, n_z, n_underscore},
        a \in {IntTok(<<"5">>), Id(n_underscore), Id(n_x)}}
    \cup {ClassTokens(n_Main, n_Object,
             <<Sel(<<"f","o","o",":">>)>> \o BlockTokens(<<n_z>>, StatementTokens(t, <<a>>))
             \o RunMethod) :
             t \in {n_z, n_underscore}, a \in {IntTok(<<"5">>), Id(n_underscore)}}

\* Duplicates: two or three classes named Main or A, names repeating, each
\* parented on Object or on the undeclared B.
DuplicatePrograms ==
    UNION {
        {Concat([k \in 1..n |->
                    ClassTokens(cs[k], ps[k],
                                IF cs[k] = n_Main THEN RunMethod ELSE <<>>)]) :
            cs \in [1..n -> {n_Main, n_A}], ps \in [1..n -> {n_Object, n_B}]} :
        n \in 2..3}

SemInputs ==
    HierarchyPrograms \cup SendPrograms \cup EntryPrograms \cup MethodPrograms
    \cup ScopePrograms \cup TargetPrograms \cup DuplicatePrograms

InitSem == \E toks \in SemInputs : Tokenized(toks)

SemNext == MainParser \/ AnalyzerNext

SpecSem == InitSem /\ [][SemNext]_vars

(***************************************************************************)
(* What a program declares, read off its tree                              *)
(***************************************************************************)
\* the indices Child takes at a node
ChildIndices(node) ==
    CASE node.kind = "Program" -> 1..Len(node.class_nodes)
      [] node.kind = "Class" -> 1..Len(node.methods)
      [] node.kind = "Method" -> {0}
      [] node.kind = "Block" -> 1..Len(node.statements)
      [] node.kind = "Statement" -> {0}
      [] node.kind = "Send" -> 0..Len(node.args)
      [] OTHER -> {}

RECURSIVE Paths(_)
\* the paths of all nodes below node, node itself included
Paths(node) ==
    {<<>>} \cup UNION {{<<i>> \o q : q \in Paths(Child(node, i))} : i \in ChildIndices(node)}

\* the names of the classes a program declares
DeclaredClasses(program) ==
    {program.class_nodes[k].identifier : k \in 1..Len(program.class_nodes)}

\* the declaration of class name in the program
ClassDeclaration(program, name) ==
    program.class_nodes[CHOOSE k \in 1..Len(program.class_nodes) :
                            program.class_nodes[k].identifier = name]

\* the parent the program, or the language, gives class name
StaticParent(program, name) ==
    IF name \in DeclaredClasses(program)
    THEN Some(ClassDeclaration(program, name).parent_class)
    ELSE IF name \in DOMAIN builtin_symtable THEN builtin_symtable[name].parent
    ELSE None

\* the selectors class name declares itself
StaticSelectors(program, name) ==
    IF name \in DeclaredClasses(program)
    THEN LET methods == ClassDeclaration(program, name).methods
         IN  {methods[m].selector : m \in 1..Len(methods)}
    ELSE IF name \in DOMAIN builtin_symtable THEN DOMAIN builtin_symtable[name].methods
    ELSE {}

RECURSIVE StaticChainFrom(_, _, _)
\* the classes on the ancestor chain of class name, name included
StaticChainFrom(program, class_, seen) ==
    IF class_.is_none \/ class_.val \in seen THEN seen
    ELSE StaticChainFrom(program, StaticParent(program, class_.val), seen \cup {class_.val})
StaticChain(program, name) == StaticChainFrom(program, Some(name), {})

\* selector is declared by class name or by a class on its ancestor chain
StaticResolves(program, name, selector) ==
    \E c \in StaticChain(program, name) : selector \in StaticSelectors(program, c)

\* a class of the program is its own ancestor
OnCycle(program, name) ==
    LET parent == StaticParent(program, name)
    IN  ~parent.is_none /\ name \in StaticChain(program, parent.val)
HasCycle(program) == \E name \in DeclaredClasses(program) : OnCycle(program, name)

RECURSIVE BoundAlong(_, _)
\* The names bound where the node at path is, going down from node: of every
\* block on the way, its parameters and the targets of its statements up to
\* the one the path goes through.
BoundAlong(node, path) ==
    IF path = <<>> THEN {}
    ELSE (IF node.kind = "Block"
          THEN Range(node.parameters)
               \cup {node.statements[j].identifier : j \in 1..Head(path)}
          ELSE {})
         \cup BoundAlong(Child(node, Head(path)), Tail(path))

PseudoIdentifiers == {kw_self, kw_super, kw_nil, kw_true, kw_false}

\* The program has none of the errors the analyzer reports, a cycle of
\* parents aside: classes and parents are declared once and known, selectors
\* are declared once per class with as many parameters as colons, parameters
\* are distinct and not assigned to, variables are bound, classes named in
\* expressions are known and the selectors sent to them are declared on their
\* ancestor chain, and Main declares run.
FreeOfOtherErrors(program) ==
    LET classes == program.class_nodes
        nodes == {[path |-> q, node |-> NodeAt(program, q)] : q \in Paths(program)}
    IN  /\ \A i, j \in 1..Len(classes) :
              i # j => classes[i].identifier # classes[j].identifier
        /\ \A i \in 1..Len(classes) :
              /\ classes[i].identifier \notin DOMAIN builtin_symtable
              /\ classes[i].parent_class
                     \in DeclaredClasses(program) \cup DOMAIN builtin_symtable
              /\ \A m, n \in 1..Len(classes[i].methods) :
                    m # n => classes[i].methods[m].selector # classes[i].methods[n].selector
        /\ \A n \in nodes :
              CASE n.node.kind = "Method" ->
                     CountChar(n.node.selector, ":") = Len(n.node.block.parameters)
                [] n.node.kind = "Block" ->
                     /\ \A i, j \in 1..Len(n.node.parameters) :
                           i # j => n.node.parameters[i] # n.node.parameters[j]
                     /\ \A k \in 1..Len(n.node.statements) :
                           n.node.statements[k].identifier \notin Range(n.node.parameters)
                [] n.node.kind = "Variable" ->
                     n.node.name \in BoundAlong(program, n.path)
                                     \cup PseudoIdentifiers \cup {n_underscore}
                [] is_class_literal(n.node) ->
                     n.node.value \in DeclaredClasses(program) \cup DOMAIN builtin_symtable
                [] n.node.kind = "Send" /\ is_class_literal(n.node.receiver) ->
                     StaticResolves(program, n.node.receiver.value, n.node.selector)
                [] OTHER -> TRUE
        /\ n_Main \in DeclaredClasses(program)
        /\ n_run \in StaticSelectors(program, n_Main)

\* the analysis of the program has ended, one way or the other
Analyzed ==
    /\ "semantic_analyzer" \in Range(main_locals)
    /\ pc \in {"exit", "serialize"}

\* the call the analyzer was in when it ended the run
FailedIn(op) ==
    /\ pc = "exit"
    /\ "semantic_analyzer" \in Range(main_locals)
    /\ agenda # <<>>
    /\ Head(agenda).op = op

(***************************************************************************)
(* Properties of the analyzer                                              *)
(***************************************************************************)
\* C3: the analysis of a program whose classes have a cycle of parents, and
\* that has no other error, ends with the code 35.
C3_CycleRejected ==
    (Analyzed /\ HasCycle(ast) /\ FreeOfOtherErrors(ast)) =>
        (pc = "exit" /\ exit_code = SEMANTIC_ERROR_OTHER)

\* C4: a send to a class is rejected as an undefined method only if its
\* selector is declared neither by the class named nor by a class on its
\* ancestor chain, wherever in the source these classes stand.
C4_ForwardReferenceResolves ==
    FailedIn("check_method") =>
        LET node == NodeAt(ast, Head(agenda).path)
        IN  ~StaticResolves(ast, node.receiver.value, node.selector)

\* Main is declared and declares the selector run itself
MainDeclaresRun(program) ==
    /\ n_Main \in DeclaredClasses(program)
    /\ n_run \in StaticSelectors(program, n_Main)

\* C6: an analysis that comes to its final check ends there with the code 31
\* if the program declares no Main, or a Main that does not declare run
\* itself, and goes through if Main declares run; the code 31 comes from
\* nowhere else, and an analysis that went through had a Main declaring run.
C6_EntryPoint ==
    /\ (pc = "serialize" => MainDeclaresRun(ast))
    /\ (FailedIn("check_main_class") =>
            exit_code = SEMANTIC_ERROR_MISSING_MAIN /\ ~MainDeclaresRun(ast))
    /\ (exit_code = SEMANTIC_ERROR_MISSING_MAIN =>
            FailedIn("check_main_class") /\ ~MainDeclaresRun(ast))

\* Main inherits run from its parent A and declares only foo: the analysis
\* ended with 31 in the final check.
C6_RunOnlyInherited ==
    /\ FailedIn("check_main_class")
    /\ exit_code = SEMANTIC_ERROR_MISSING_MAIN
    /\ n_Main \in DeclaredClasses(ast)
    /\ StaticParent(ast, n_Main) = Some(n_A)
    /\ n_run \in StaticSelectors(ast, n_A)
    /\ n_run \notin StaticSelectors(ast, n_Main)

\* C7: the visit of a method ends the run with the code 33 when the selector
\* has not as many colons as the block has parameters, and goes on to the
\* block when it has.
C7_ArityMismatch ==
    [][Visiting("Method") =>
          LET node == NodeAt(ast, Head(agenda).path)
          IN  IF CountChar(node.selector, ":") # Len(node.block.parameters)
              THEN pc' = "exit" /\ exit_code' = SEMANTIC_ERROR_MISSMATCH
              ELSE /\ exit_code' = NoExit
                   /\ agenda' # <<>>
                   /\ Head(agenda') = Frame("accept", Head(agenda).path \o <<0>>)]_vars

\* The visit of a method "run" whose block has one parameter ended the run
\* with 33.
C7_FewerColonsThanParameters ==
    /\ FailedIn("accept")
    /\ exit_code = SEMANTIC_ERROR_MISSMATCH
    /\ NodeAt(ast, Head(agenda).path).kind = "Method"
    /\ NodeAt(ast, Head(agenda).path).selector = n_run
    /\ Len(NodeAt(ast, Head(agenda).path).block.parameters) = 1

\* C8: the visit of a variable goes through when its name is bound where it
\* stands (a parameter of the block or of a block around it, the target of
\* the statement or of an earlier one of these blocks, a pseudo-identifier or
\* "_"), and ends the run with the code 32 when it is not.
C8_BoundOrUndefined ==
    [][Visiting("Variable") =>
          LET path == Head(agenda).path
              name == NodeAt(ast, path).name
          IN  IF name \in BoundAlong(ast, path) \cup PseudoIdentifiers \cup {n_underscore}
              THEN exit_code' = NoExit /\ agenda' = Tail(agenda)
              ELSE pc' = "exit" /\ exit_code' = SEMANTIC_ERROR_UNDEFINED_USE]_vars

\* "y := [ | x := 5. ]. y := x." in a method of parameter z: the reference to
\* x, assigned only inside the block that was exited, ended the run with 32.
C8_AssignedOnlyInExitedBlock ==
    /\ FailedIn("accept")
    /\ exit_code = SEMANTIC_ERROR_UNDEFINED_USE
    /\ Head(agenda).path = <<1, 1, 0, 2, 0>>
    /\ NodeAt(ast, <<1, 1, 0, 2, 0>>) = VariableNode(n_x)
    /\ NodeAt(ast, <<1, 1, 0, 1, 0>>).kind = "Block"
    /\ NodeAt(ast, <<1, 1, 0, 1, 0, 1>>).identifier = n_x

\* the block whose statement list holds the statement at path
BlockOf(path) == NodeAt(ast, SubSeq(path, 1, Len(path) - 1))

\* the visit of a statement whose target is a parameter of the statement's
\* own block
AssignsOwnParameter ==
    /\ Visiting("Statement")
    /\ NodeAt(ast, Head(agenda).path).identifier
           \in Range(BlockOf(Head(agenda).path).parameters)

\* C11 as stated: the visit of a statement ends the run with the code 34 when
\* the target is a parameter of the statement's own block, and goes on when
\* it is not; no other step produces 34.
C11_CollisionWithOwnParameter ==
    [][/\ Visiting("Statement") =>
             IF AssignsOwnParameter
             THEN pc' = "exit" /\ exit_code' = SEMANTIC_ERROR_VAR_COLLISION
             ELSE exit_code' = NoExit
       /\ exit_code' = SEMANTIC_ERROR_VAR_COLLISION => Visiting("Statement")]_vars

\* C11: the visit of a statement ends the run with the code 34 when the
\* target is a parameter of the statement's own block and is not "_", and
\* goes on in every other case: a target that is a parameter of an enclosing
\* block only, that is no parameter, or that is "_"; no other step produces
\* 34.
C11_CollisionExceptSink ==
    [][/\ Visiting("Statement") =>
             IF /\ AssignsOwnParameter
                /\ NodeAt(ast, Head(agenda).path).identifier # n_underscore
             THEN pc' = "exit" /\ exit_code' = SEMANTIC_ERROR_VAR_COLLISION
             ELSE exit_code' = NoExit
       /\ exit_code' = SEMANTIC_ERROR_VAR_COLLISION => Visiting("Statement")]_vars

\* "y := [ :x | x := 5 . ] ." in a method of parameter z: the visit of
\* "x := 5" ended the run with 34.
C11_InnerParameterAssigned ==
    /\ FailedIn("accept")
    /\ exit_code = SEMANTIC_ERROR_VAR_COLLISION
    /\ Head(agenda).path = <<1, 1, 0, 1, 0, 1>>
    /\ NodeAt(ast, <<1, 1, 0, 1, 0, 1>>).identifier = n_x
    /\ NodeAt(ast, <<1, 1, 0, 1, 0>>).parameters = <<n_x>>
    /\ NodeAt(ast, <<1, 1, 0>>).parameters = <<n_z>>

\* no element stands twice in the sequence
Distinct(seq) == \A i, j \in 1..Len(seq) : i # j => seq[i] # seq[j]

\* the names of the classes, the selectors of a class and the parameters of
\* a block, as sequences in source order
ClassNamesOf(program) ==
    [k \in 1..Len(program.class_nodes) |-> program.class_nodes[k].identifier]
SelectorsOf(class) == [k \in 1..Len(class.methods) |-> class.methods[k].selector]

\* the ancestor chain of class name runs into a cycle of parents
ChainHasCycle(program, name) ==
    \E c \in StaticChain(program, name) : OnCycle(program, c)

\* the node whose visit is the next step of the analysis
Visited == NodeAt(ast, Head(agenda).path)

\* C12: the visit of the program ends the run with 35 when two classes have
\* the same name; the visit of a class whose ancestor chain has no cycle
\* ends the run with 35 when two of its methods have the same selector, and
\* goes on when they have not, whatever the selectors of the other classes;
\* the visit of a block ends the run with 35 when two of its parameters have
\* the same name, and goes on when they have not, whatever the parameters of
\* the other blocks; and 35 is produced by no other step but the visit of a
\* class whose chain has a cycle.
C12_DuplicatesRejected ==
    [][/\ Visiting("Program") =>
             IF ~Distinct(ClassNamesOf(Visited))
             THEN pc' = "exit" /\ exit_code' = SEMANTIC_ERROR_OTHER
             ELSE exit_code' # SEMANTIC_ERROR_OTHER
       /\ (Visiting("Class") /\ ~ChainHasCycle(ast, Visited.identifier)) =>
             IF ~Distinct(SelectorsOf(Visited))
             THEN pc' = "exit" /\ exit_code' = SEMANTIC_ERROR_OTHER
             ELSE exit_code' = NoExit
       /\ Visiting("Block") =>
             IF ~Distinct(Visited.parameters)
             THEN pc' = "exit" /\ exit_code' = SEMANTIC_ERROR_OTHER
             ELSE exit_code' = NoExit
       /\ exit_code' = SEMANTIC_ERROR_OTHER =>
             \/ Visiting("Program") /\ ~Distinct(ClassNamesOf(Visited))
             \/ Visiting("Class") /\ ~Distinct(SelectorsOf(Visited))
             \/ Visiting("Class") /\ ChainHasCycle(ast, Visited.identifier)
             \/ Visiting("Block") /\ ~Distinct(Visited.parameters)]_vars

\* The visit of "foo:bar: [ :x :x | ]" went through the arity check, and the
\* visit of its block ended the run with 35.
C12_ParameterTwice ==
    /\ FailedIn("accept")
    /\ exit_code = SEMANTIC_ERROR_OTHER
    /\ Visited.kind = "Block"
    /\ Visited.parameters = <<n_x, n_x>>

(***************************************************************************)
(* Serialized programs                                                     *)
(***************************************************************************)

\* Documents: class Main : Object { run [ | S ... ] } with up to MaxStmts
\* statements S (a literal, a two-argument send, a send to a class literal, a
\* block of two parameters and two statements), with or without a second
\* method foo:bar: before or after run, and with or without a second class A
\* before or after Main.
XmlStatements ==
    {StatementTokens(n_x, <<IntTok(<<"5">>)>>),
     StatementTokens(n_y, <<Id(n_y), Sel(<<"f","o","o",":">>), IntTok(<<"5">>), Sel(<<"b","a","r",":">>), Id(n_y)>>),
     StatementTokens(n_x, <<Cls(n_Main), Id(<<"n","e","w">>)>>),
     StatementTokens(n_y,
        BlockTokens(<<n_x, n_z>>,
            StatementTokens(n_y, <<Id(n_z)>>)
            \o StatementTokens(n_underscore, <<Id(n_x), Sel(<<"b","a","r",":">>), Id(n_y)>>)))}
FooBarMethod ==
    <<Sel(<<"f","o","o",":">>), Sel(<<"b","a","r",":">>)>>
    \o BlockTokens(<<n_x, n_y>>,
          StatementTokens(n_z, <<Id(n_y)>>) \o StatementTokens(n_z, <<Id(n_x)>>))
XmlMains ==
    {ClassTokens(n_Main, n_Object, before \o <<Id(n_run)>> \o BlockTokens(<<>>, Concat(body)) \o after) :
        body \in SeqsUpTo(XmlStatements, MaxStmts),
        before \in {<<>>, FooBarMethod}, after \in {<<>>, FooBarMethod}}
XmlPrograms ==
    {before \o m \o after :
        m \in XmlMains,
        before \in {<<>>, ClassTokens(n_A, n_Main, FooMethod)},
        after \in {<<>>, ClassTokens(n_A, n_Object, FooMethod)}}

InitXml == \E toks \in XmlPrograms : Tokenized(toks)

XmlNext == MainParser \/ AnalyzerNext \/ MainXmlVisitor \/ MainPrint

SpecXml == InitXml /\ [][XmlNext]_vars

\* The value of the attribute called name of an element
Attr(elem, name) ==
    (CHOOSE a \in {elem.attrs[k] : k \in 1..Len(elem.attrs)} : a[1] = name)[2]

\* The decimal numerals of 1..9
Numerals == <<"1","2","3","4","5","6","7","8","9">>

RECURSIVE Corresponds(_, _)
\* The element elem lists what the AST node lists, in the node's order.
Corresponds(elem, node) ==
    CASE node.kind = "Program" ->
           /\ elem.tag = "program"
           /\ Len(elem.children) = Len(node.class_nodes)
           /\ \A k \in 1..Len(node.class_nodes) :
                 Corresponds(elem.children[k], node.class_nodes[k])
      [] node.kind = "Class" ->
           /\ elem.tag = "class"
           /\ Attr(elem, "name") = node.identifier
           /\ Len(elem.children) = Len(node.methods)
           /\ \A k \in 1..Len(node.methods) :
                 Corresponds(elem.children[k], node.methods[k])
      [] node.kind = "Method" ->
           /\ elem.tag = "method"
           /\ Attr(elem, "selector") = node.selector
           /\ Len(elem.children) = 1
           /\ Corresponds(elem.children[1], node.block)
      [] node.kind = "Block" ->
           LET np == Len(node.parameters)
               ns == Len(node.statements)
           IN  /\ elem.tag = "block"
               /\ Len(elem.children) = np + ns
               /\ \A k \in 1..np :
                     /\ elem.children[k].tag = "parameter"
                     /\ Attr(elem.children[k], "name") = node.parameters[k]
                     /\ Attr(elem.children[k], "order") = <<Numerals[k]>>
               /\ \A k \in 1..ns :
                     LET assign == elem.children[np + k]
                     IN  /\ assign.tag = "assign"
                         /\ Attr(assign, "order") = <<Numerals[k]>>
                         /\ Len(assign.children) = 2
                         /\ assign.children[1].tag = "var"
                         /\ Attr(assign.children[1], "name") = node.statements[k].identifier
                         /\ assign.children[2].tag = "expr"
                         /\ Len(assign.children[2].children) = 1
                         /\ Corresponds(assign.children[2].children[1],
                                        node.statements[k].expression)
      [] node.kind = "Send" ->
           /\ elem.tag = "send"
           /\ Attr(elem, "selector") = node.selector
           /\ Len(elem.children) = 1 + Len(node.args)
           /\ elem.children[1].tag = "expr"
           /\ Len(elem.children[1].children) = 1
           /\ Corresponds(elem.children[1].children[1], node.receiver)
           /\ \A k \in 1..Len(node.args) :
                 LET arg == elem.children[1 + k]
                 IN  /\ arg.tag = "arg"
                     /\ Attr(arg, "order") = <<Numerals[k]>>
                     /\ Len(arg.children) = 1
                     /\ arg.children[1].tag = "expr"
                     /\ Len(arg.children[1].children) = 1
                     /\ Corresponds(arg.children[1].children[1], node.args[k])
      [] node.kind = "Variable" ->
           elem.tag = "var" /\ Attr(elem, "name") = node.name
      [] node.kind = "Literal" ->
           elem.tag = "literal" /\ Attr(elem, "class") = node.type

\* C13: the printed document keeps the AST's order: the class elements and,
\* in each, the method elements in declaration order; in a block element all
\* parameter elements before all assign elements, each group in source order
\* and numbered 1..n by its order attribute; in a send element the receiver's
\* expr first, then the arg elements in order, numbered 1..n.
C13_DocumentInAstOrder ==
    stdout # <<>> => Len(stdout) = 1 /\ Corresponds(stdout[1], ast)

\* A printed document of two classes, the first with two methods, one of
\* which holds a block of two parameters and two statements and a send of two
\* arguments.
C13_TwoOfEach ==
    /\ stdout # <<>>
    /\ Len(ast.class_nodes) = 2
    /\ Len(ast.class_nodes[1].methods) = 2
    /\ LET block == ast.class_nodes[1].methods[2].block
       IN  /\ Len(block.statements) = 2
           /\ block.statements[1].expression.kind = "Send"
           /\ Len(block.statements[1].expression.args) = 2
           /\ block.statements[2].expression.kind = "Block"
           /\ Len(block.statements[2].expression.parameters) = 2
           /\ Len(block.statements[2].expression.statements) = 2

\* C14: "_" is a pure sink. The visit of a statement whose target is "_"
\* leaves every scope as it was and goes on without an error, also when "_"
\* is a parameter of the statement's block; no scope ever holds "_" as a
\* variable; and the visit of a reference to "_" goes on without an error
\* whatever the scopes hold.
C14_PureSink ==
    [][/\ (Visiting("Statement") /\ Visited.identifier = n_underscore) =>
             /\ current_scope' = current_scope
             /\ exit_code' = NoExit
             /\ pc' = "visit"
       /\ (Visiting("Variable") /\ Visited.name = n_underscore) =>
             /\ exit_code' = NoExit
             /\ pc' = "visit"
             /\ agenda' = Tail(agenda)
       /\ \A k \in 1..Len(current_scope') :
             n_underscore \notin current_scope'[k].variables]_vars

\* "y := [ :_ | _ := _ . ] ." in a method of parameter z was analyzed to the
\* end: the target "_" is a parameter of its block, the value "_" is bound
\* nowhere as a variable.
C14_SinkIsOwnParameter ==
    /\ pc = "serialize"
    /\ Len(ast.class_nodes) = 1
    /\ Len(ast.class_nodes[1].methods) = 2
    /\ LET outer == ast.class_nodes[1].methods[1].block
       IN  /\ outer.parameters = <<n_z>>
           /\ Len(outer.statements) = 1
           /\ outer.statements[1].expression.kind = "Block"
           /\ LET inner == outer.statements[1].expression
              IN  /\ inner.parameters = <<n_underscore>>
                  /\ Len(inner.statements) = 1
                  /\ inner.statements[1].identifier = n_underscore
                  /\ inner.statements[1].expression.kind = "Variable"
                  /\ inner.statements[1].expression.name = n_underscore

\* C15: every Send node of a parsed program has as many arguments as its
\* selector has colons.
C15_SendsWellFormed ==
    ast # NoNode =>
        \A q \in Paths(ast) :
            NodeAt(ast, q).kind = "Send" =>
                Len(NodeAt(ast, q).args) = CountChar(NodeAt(ast, q).selector, ":")

\* Walks over parent links: Main : Object { run [ | x := R sel . y := x . ] },
\* A declaring foo and B declaring nothing, each parented on Object or on
\* the other, with Main before or after them.
WalkPrograms ==
    UNION {
        {main \o others, others \o main} :
            main \in {ClassTokens(n_Main, n_Object,
                        <<Id(n_run)>> \o BlockTokens(<<>>,
                            StatementTokens(n_x, <<Cls(r), Id(sel)>>)
                            \o StatementTokens(n_y, <<Id(n_x)>>))) :
                        r \in {n_A, n_B}, sel \in {n_foo, <<"n","e","w">>}},
            others \in {ClassTokens(n_A, pa, FooMethod) \o ClassTokens(n_B, pb, <<>>) :
                        pa \in {n_Object, n_B}, pb \in {n_Object, n_A}}}

InitWalk == \E toks \in WalkPrograms : Tokenized(toks)

\* The analyzer as a running process: once main has called analyze, the
\* interpreter executes the next statement of the one thread whenever there
\* is one.
SpecSemFair == InitWalk /\ [][SemNext]_vars /\ WF_vars(AnalyzerNext)

\* C16: the analysis of every program ends: once the analyzer is built, the
\* run reaches the end of analyze or ends with an error.
C16_AnalysisTerminates == (pc = "analyze") ~> (pc \in {"exit", "serialize"})

\* the paths of the blocks around the node at path q, outermost first; the
\* node itself is counted when it is a block and inclusive is TRUE
EnclosingBlocks(q, inclusive) ==
    LET last == IF inclusive THEN Len(q) ELSE Len(q) - 1
        lens == {k \in 0..last : NodeAt(ast, SubSeq(q, 1, k)).kind = "Block"}
        nth[n \in 0..Cardinality(lens)] ==
            IF n = 0 THEN -1
            ELSE CHOOSE k \in lens : k > nth[n - 1] /\ \A j \in lens : j > nth[n - 1] => k <= j
    IN  [n \in 1..Cardinality(lens) |-> SubSeq(q, 1, nth[n])]

\* the blocks the analyzer is inside of: those around the node it is about to
\* visit, and the block itself when it is about to leave one
BlocksEntered ==
    IF agenda = <<>> \/ Head(agenda).op = "check_main_class" THEN <<>>
    ELSE EnclosingBlocks(Head(agenda).path, Head(agenda).op = "exit_scope")

\* the targets of the statements of a block
TargetsOf(block) == {block.statements[k].identifier : k \in 1..Len(block.statements)}

\* C17: while the analyzer runs, the scope stack holds the global scope, as
\* it was seeded, and above it one scope for each block the analyzer is
\* inside of, outermost first; the scope of a block holds the block's
\* parameters and, as variables, targets of the block's own statements only.
\* Between methods, and when analyze returns, the stack is the global scope
\* alone.
C17_ScopesBalanced ==
    /\ pc = "visit" =>
          /\ Len(current_scope) = 1 + Len(BlocksEntered)
          /\ current_scope[1] = global_scope
          /\ \A n \in 1..Len(BlocksEntered) :
                LET block == NodeAt(ast, BlocksEntered[n])
                    scope == current_scope[n + 1]
                IN  /\ scope.parameters = Range(block.parameters)
                    /\ scope.variables \subseteq TargetsOf(block)
          /\ (agenda # <<>> /\ Head(agenda).op = "accept"
              /\ NodeAt(ast, Head(agenda).path).kind \in {"Class", "Method"}) =>
                current_scope = <<global_scope>>
    /\ pc = "serialize" => current_scope = <<global_scope>>

\* "y := [ | x := ... . ] . y := [ | T := ... . ] .": the analyzer is about
\* to visit the statement of the second block, two blocks deep, and x,
\* assigned in the first block, is in no scope.
C17_SiblingBlockLeft ==
    /\ pc = "visit"
    /\ agenda # <<>>
    /\ Head(agenda).op = "accept"
    /\ Head(agenda).path = <<1, 1, 0, 2, 0, 1>>
    /\ Len(current_scope) = 3
    /\ NodeAt(ast, <<1, 1, 0, 1, 0>>).kind = "Block"
    /\ NodeAt(ast, <<1, 1, 0, 1, 0>>).parameters = <<>>
    /\ TargetsOf(NodeAt(ast, <<1, 1, 0, 1, 0>>)) = {n_x}
    /\ \A k \in 1..3 : n_x \notin current_scope[k].variables \cup current_scope[k].parameters

(***************************************************************************)
(* The runs checked: main on a program with comments around its parts      *)
(***************************************************************************)
\* What stands before the class, before its method and after the class:
\* nothing, a comment, an empty comment, a comment of two lines, blanks and a
\* newline, or a quote that opens a comment and does not close it.
CommentWords ==
    {<<>>, <<"\"","c","\""," ">>, <<"\"","\""," ">>, <<"\"", "d", "\n", "e", "\"", " ">>, <<"\t", "\n">>, <<"\"","c">>}

CommentedSources ==
    {c1 \o <<"c","l","a","s","s"," ","M","a","i","n"," ",":"," ","O","b","j","e","c","t"," ","{"," ">> \o c2 \o <<"r","u","n"," ","["," ","|"," ","x"," ",":","="," ","M","a","i","n"," ","n","e","w"," ","."," ","y"," ",":","="," ","x"," ","."," ","]"," ","}"," ">> \o c3 :
        c1 \in CommentWords, c2 \in CommentWords, c3 \in CommentWords}

InitCommented == \E source \in CommentedSources : Started(source)

SpecCommented == InitCommented /\ [][Next]_vars

\* the position of the first double quote of src_code after position i
QuoteAfter(i) ==
    CHOOSE j \in (i + 1)..Len(src_code) :
        /\ src_code[j] = "\""
        /\ \A k \in (i + 1)..(j - 1) : src_code[k] # "\""

\* the tokenizer is at a character c of the text
TokenizerAt(c) ==
    /\ pc = "tokenize"
    /\ idx <= Len(src_code)
    /\ src_code[idx] = c

\* C18: the description is fixed by the first comment. A step of the
\* tokenizer over a closed comment adds no token and, when it is the first,
\* captures the text between the comment's quotes; after that no step changes
\* what was captured, an empty text included. A step over a blank, a tab or a
\* newline adds no token and captures nothing. Without a comment nothing is
\* captured, the Program node's description is empty and the printed program
\* element has no description attribute; with one, the node's description is
\* the captured text.
C18_FirstCommentOnly ==
    [][/\ (TokenizerAt("\"") /\ pc' = "tokenize") =>
             /\ tokens' = tokens
             /\ comment_flag'
             /\ idx' = QuoteAfter(idx) + 1
             /\ first_comment' =
                   IF comment_flag THEN first_comment
                   ELSE Some(SubSeq(src_code, idx + 1, QuoteAfter(idx) - 1))
       /\ (TokenizerAt(" ") \/ TokenizerAt("\t") \/ TokenizerAt("\n")) =>
             /\ tokens' = tokens
             /\ first_comment' = first_comment
             /\ comment_flag' = comment_flag
       /\ comment_flag => first_comment' = first_comment /\ comment_flag'
       /\ ~comment_flag' => first_comment' = None
       /\ ast' # NoNode =>
             ast'.first_comment = IF first_comment' = None THEN <<>> ELSE first_comment'.val
       /\ stdout' # <<>> =>
             \A k \in 1..Len(stdout'[1].attrs) :
                 stdout'[1].attrs[k][1] = "description" =>
                     /\ first_comment' # None
                     /\ stdout'[1].attrs[k][2] = first_comment'.val]_vars

\* A program whose first comment is empty and whose later comment is "c" has
\* been printed: what was captured is the empty text.
C18_EmptyFirstComment ==
    /\ stdout # <<>>
    /\ first_comment = Some(<<>>)
    /\ \E i \in 1..(Len(stdin) - 2) :
          stdin[i] = "\"" /\ stdin[i + 1] = "c" /\ stdin[i + 2] = "\""

====
